---- MODULE Spec2Model ----
(***************************************************************************)
(* A model of qudit-tree: the TreeBuilder that folds a circuit DAG into an *)
(* ExpressionTree (src/src/tree/builder.rs), the bytecode pipeline and the *)
(* QVM that evaluates it.                                                  *)
(*                                                                         *)
(* Conventions.  Option<usize> is a sequence of length zero (None) or one  *)
(* (Some(i)).  Rust vectors are TLA+ sequences; positions inside them are  *)
(* 1-based here, qudit labels and DAG indices stay 0-based as in the code. *)
(* An operator that models code which can panic returns a record with an   *)
(* ok field; ok = FALSE is the panic.                                      *)
(* Matrices are the terms that compute them, so two matrices are equal     *)
(* when they are computed the same way.  The kernel of a Write (compiled   *)
(* by qudit_expr) is taken to determine its whole destination from the     *)
(* expression and its slice of the parameter vector.  The memory of the    *)
(* QVM is a sequence of buffers, each its unitary and gradient matrices;   *)
(* Bytecode::specialize gives their places in the flat memory.             *)
(***************************************************************************)
EXTENDS Integers, Sequences, FiniteSets, TLC

\* Bounds of the model.
MaxQudits == 2
MaxOps == 4
MaxOpQudits == 2

VARIABLES
    num_qudits,     \* TreeBuilder.num_qudits
    qudits_list,    \* the qudits_list argument of TreeBuilder::new
    new_args,       \* all the arguments of TreeBuilder::new
    dag,            \* TreeBuilder.dag : index -> Node
    index_counter,  \* TreeBuilder.index_counter
    pc,             \* position of control inside build_tree
    disjoint_size,  \* loop variable of build_tree
    fused,          \* most pairs fused by one Kron or Contract step so far
    result,         \* the tree build_tree returned, None before it returns
    input_tree,     \* the ExpressionTree handed to compile
    optimized,      \* whether TreeOptimizer::optimize has rewritten it
    bytecode,       \* the Bytecode compile returned
    vm,             \* the QVM built from bytecode
    vm_pc,          \* position of the caller of compile and of the QVM
    calls,          \* number of calls made on vm
    last_call       \* the last call on vm: its name, its arguments, the
                    \* QVM before it and what it handed back

builder_vars == <<num_qudits, qudits_list, new_args, dag, index_counter, pc,
                  disjoint_size, fused, result>>

vm_vars == <<input_tree, optimized, bytecode, vm, vm_pc, calls, last_call>>

----------------------------------------------------------------------------
\* Option<T> and Vec<T> helpers

None == << >>

Some(x) == <<x>>

Range(s) == {s[i] : i \in 1..Len(s)}

Contains(s, x) == \E i \in 1..Len(s) : s[i] = x

\* Iterator::position, 1-based; only used where Contains(s, x)
Position(s, x) == CHOOSE i \in 1..Len(s) : s[i] = x /\ \A j \in 1..(i-1) : s[j] # x

\* opts.iter().filter(is_some).map(unwrap).collect::<Vec<_>>()
Somes(opts) ==
    LET f == SelectSeq(opts, LAMBDA o : o # None)
    IN  [i \in 1..Len(f) |-> f[i][1]]

Min(S) == CHOOSE x \in S : \A y \in S : x <= y

Max(S) == CHOOSE x \in S : \A y \in S : y <= x

RECURSIVE SortedSeq(_)
\* the elements of a finite set of numbers in increasing order
SortedSeq(S) ==
    IF S = {} THEN << >>
    ELSE LET m == Min(S) IN <<m>> \o SortedSeq(S \ {m})

union(qudits1, qudits2) ==
    qudits1 \o SelectSeq(qudits2, LAMBDA q : ~Contains(qudits1, q))

intersect(qudits1, qudits2) ==
    SelectSeq(qudits1, LAMBDA q : Contains(qudits2, q))

difference(qudits1, qudits2) ==
    SelectSeq(qudits1, LAMBDA q : ~Contains(qudits2, q))

----------------------------------------------------------------------------
\* Expression trees (src/src/tree)

\* Every qudit of the model has this radix.
Radix == 2

\* An operator that panics returns this.
Panic == [ok |-> FALSE]

RECURSIVE Product(_)
\* the product of the numbers of a sequence
Product(seq) == IF seq = << >> THEN 1 ELSE Head(seq) * Product(Tail(seq))

\* UnitaryExpression: a name, the radices of its qudits and its number of
\* parameters.
ExpressionOn(name, rdx, np) ==
    [name |-> name, nq |-> Len(rdx), np |-> np, radices |-> rdx]

\* A UnitaryExpression on nq qudits of radix Radix.
Expression(name, nq, np) == ExpressionOn(name, [i \in 1..nq |-> Radix], np)

\* ExpressionTree::Leaf
Leaf(expr) == [kind |-> "Leaf", expr |-> expr]

\* QuditPermutation::permuted_radices; a QuditPermutation is its radices
\* and its perm, qudit i of the result being qudit perm[i] of the system
\* the radices of a permutation, left in the order of its input
permuted_radices_unpermuted(p) == p.radices

\* QuditPermutation::permuted_radices
permuted_radices(p) == [i \in 1..Len(p.perm) |-> p.radices[p.perm[i] + 1]]

\* QuditPermutation::locally_invert_location: the permutation that sorts
\* the location loc
locally_invert_location(rdx, loc) ==
    [radices |-> rdx,
     perm |-> [i \in 1..Len(loc) |->
                 Position(loc, SortedSeq(Range(loc))[i]) - 1]]

RECURSIVE radices(_)
\* QuditSystem::radices of a tree
radices(t) ==
    CASE t.kind = "Leaf" -> t.expr.radices
      [] t.kind = "Mul" -> radices(t.left)
      [] t.kind = "Kron" -> radices(t.left) \o radices(t.right)
      [] t.kind = "Contract" ->
            SubSeq(t.out_tensor_shape, 1, Len(t.out_tensor_shape) \div 2)
      [] t.kind = "Constant" -> radices(t.child)
      [] t.kind = "Perm" -> permuted_radices(t.perm)

\* QuditSystem::num_qudits of a tree
TreeNumQudits(t) == Len(radices(t))

RECURSIVE dimension(_)
\* QuditSystem::dimension of a tree
dimension(t) ==
    CASE t.kind = "Leaf" -> Product(t.expr.radices)
      [] t.kind = "Mul" -> t.dimension
      [] t.kind = "Kron" -> t.left_dimension * t.right_dimension
      [] t.kind = "Contract" -> t.dimension
      [] t.kind = "Constant" -> dimension(t.child)
      [] t.kind = "Perm" -> t.dimension

\* HasParams::num_params of a tree
num_params(t) ==
    CASE t.kind = "Leaf" -> t.expr.np
      [] t.kind = "Constant" -> 0
      [] t.kind = "Perm" -> t.num_params
      [] OTHER -> t.left_params + t.right_params

\* MulNode::new; panics when the radices of the two sides differ
MulNodeNew(left, right) ==
    [ok |-> radices(right) = radices(left),
     val |-> [kind |-> "Mul", left |-> left, right |-> right,
              left_params |-> num_params(left),
              right_params |-> num_params(right),
              dimension |-> dimension(left)]]

\* KronNode::new
KronNodeNew(left, right) ==
    [kind |-> "Kron", left |-> left, right |-> right,
     left_params |-> num_params(left),
     right_params |-> num_params(right),
     left_dimension |-> dimension(left),
     right_dimension |-> dimension(right)]

\* PermNode::new; panics when the permutation is not one of the qudits of
\* the child
PermNodeNew(child, perm) ==
    [ok |-> Len(perm.perm) = TreeNumQudits(child)
            /\ perm.radices = radices(child),
     val |-> [kind |-> "Perm", child |-> child, perm |-> perm,
              num_params |-> num_params(child),
              dimension |-> dimension(child)]]

\* ConstantNode::new
ConstantNodeNew(child) == [kind |-> "Constant", child |-> child]

\* the 0-based positions in qudits of the elements of sel
IndexIn(sel, qudits) == [i \in 1..Len(sel) |-> Position(qudits, sel[i]) - 1]

\* left_perm: the contracted row legs of the left operand, its other row
\* legs, then its column legs
left_perm(left_qudits, right_qudits) ==
    IndexIn(intersect(left_qudits, right_qudits), left_qudits)
    \o IndexIn(difference(left_qudits, right_qudits), left_qudits)
    \o [q \in 1..Len(left_qudits) |-> (q - 1) + Len(left_qudits)]

\* right_perm: the row legs of the right operand, its uncontracted column
\* legs, then its contracted column legs
right_perm(left_qudits, right_qudits) ==
    [q \in 1..Len(right_qudits) |-> q - 1]
    \o [i \in 1..Len(difference(right_qudits, left_qudits)) |->
           IndexIn(difference(right_qudits, left_qudits), right_qudits)[i]
           + Len(right_qudits)]
    \o [i \in 1..Len(intersect(right_qudits, left_qudits)) |->
           IndexIn(intersect(right_qudits, left_qudits), right_qudits)[i]
           + Len(right_qudits)]

\* the labels "<q>r" then "<q>l" of the legs of an operand on qudits,
\* permuted by perm
idx_to_qudit_map(qudits, perm) ==
    [i \in 1..Len(perm) |->
        IF perm[i] < Len(qudits)
        THEN <<qudits[perm[i] + 1], "r">>
        ELSE <<qudits[perm[i] + 1 - Len(qudits)], "l">>]

\* all_qudits: the sorted union of the two qudit lists
all_qudits(left_qudits, right_qudits) ==
    SortedSeq(Range(left_qudits) \cup Range(right_qudits))

\* correct_order: the labels of the output legs in canonical order
correct_order(left_qudits, right_qudits) ==
    idx_to_qudit_map(all_qudits(left_qudits, right_qudits),
        [i \in 1..(2 * Len(all_qudits(left_qudits, right_qudits))) |-> i - 1])

\* pre_out_order: the uncontracted legs of the right operand, then those of
\* the left operand
pre_out_order(left_qudits, right_qudits) ==
    SubSeq(idx_to_qudit_map(right_qudits,
                            right_perm(left_qudits, right_qudits)),
           1, 2 * Len(right_qudits)
              - Len(intersect(left_qudits, right_qudits)))
    \o SubSeq(idx_to_qudit_map(left_qudits,
                               left_perm(left_qudits, right_qudits)),
              Len(intersect(left_qudits, right_qudits)) + 1,
              2 * Len(left_qudits))

\* pre_out_perm: where each leg of correct_order sits in pre_out_order
pre_out_perm(left_qudits, right_qudits) ==
    IndexIn(correct_order(left_qudits, right_qudits),
            pre_out_order(left_qudits, right_qudits))

\* radix_map: the radix of every qudit of the two lists, that of the left
\* operand for a qudit of both
radix_map(left, right, left_qudits, right_qudits) ==
    [q \in Range(left_qudits) \cup Range(right_qudits) |->
        IF Contains(left_qudits, q)
        THEN radices(left)[Position(left_qudits, q)]
        ELSE radices(right)[Position(right_qudits, q)]]

\* the radices radix_map gives the qudits of the legs of order
shape_of(rmap, order) == [i \in 1..Len(order) |-> rmap[order[i][1]]]

\* overlap_dimension: the product of the radices of the contracted qudits
overlap_dimension(rmap, left_qudits, right_qudits) ==
    Product([i \in 1..Len(intersect(left_qudits, right_qudits)) |->
                rmap[intersect(left_qudits, right_qudits)[i]]])

\* the ContractNode struct ContractNode::new returns; rmap is its
\* radix_map and overlap its overlap_dimension
ContractNode(left, right, left_qudits, right_qudits, rmap, overlap) ==
    [kind |-> "Contract", left |-> left, right |-> right,
     left_qudits |-> left_qudits, right_qudits |-> right_qudits,
     left_params |-> num_params(left),
     right_params |-> num_params(right),
     dimension |->
        Product(shape_of(rmap,
                    [i \in 1..Len(all_qudits(left_qudits, right_qudits)) |->
                        <<all_qudits(left_qudits, right_qudits)[i]>>])),
     out_tensor_shape |->
        shape_of(rmap, correct_order(left_qudits, right_qudits)),
     left_tensor_shape |-> radices(left) \o radices(left),
     left_perm |-> left_perm(left_qudits, right_qudits),
     left_contraction_shape |->
        <<overlap, (dimension(left) * dimension(left)) \div overlap>>,
     right_tensor_shape |-> radices(right) \o radices(right),
     right_perm |-> right_perm(left_qudits, right_qudits),
     right_contraction_shape |->
        <<(dimension(right) * dimension(right)) \div overlap, overlap>>,
     pre_out_tensor_shape |->
        shape_of(rmap, pre_out_order(left_qudits, right_qudits)),
     pre_out_perm |-> pre_out_perm(left_qudits, right_qudits),
     out_matrix_shape |->
        <<Product(shape_of(rmap,
                    [i \in 1..Len(all_qudits(left_qudits, right_qudits)) |->
                        <<all_qudits(left_qudits, right_qudits)[i]>>])),
          Product(shape_of(rmap,
                    [i \in 1..Len(all_qudits(left_qudits, right_qudits)) |->
                        <<all_qudits(left_qudits, right_qudits)[i]>>]))>>,
     skip_left |-> FALSE,
     skip_right |-> FALSE]

\* the tests of ContractNode::new: the two sides share a qudit, and a
\* shared qudit has one radix on both sides
ContractNodeFits(left, right, left_qudits, right_qudits) ==
    /\ intersect(left_qudits, right_qudits) # << >>
    /\ \A q \in Range(left_qudits) \cap Range(right_qudits) :
          radices(left)[Position(left_qudits, q)]
              = radices(right)[Position(right_qudits, q)]

\* ContractNode::new with its two sides exchanged
ContractNodeNewSwapped(left, right, left_qudits, right_qudits) ==
    [ok |-> ContractNodeFits(left, right, left_qudits, right_qudits),
     val |-> ContractNode(right, left, right_qudits, left_qudits,
                radix_map(right, left, right_qudits, left_qudits),
                overlap_dimension(
                    radix_map(right, left, right_qudits, left_qudits),
                    right_qudits, left_qudits))]

\* ContractNode::new; panics when the two sides share no qudit or disagree
\* on the radix of a shared qudit
ContractNodeNew(left, right, left_qudits, right_qudits) ==
    [ok |-> ContractNodeFits(left, right, left_qudits, right_qudits),
     val |-> ContractNode(left, right, left_qudits, right_qudits,
                radix_map(left, right, left_qudits, right_qudits),
                overlap_dimension(
                    radix_map(left, right, left_qudits, right_qudits),
                    left_qudits, right_qudits))]

----------------------------------------------------------------------------
\* TreeBuilder::new and its inputs

\* The sorted locations an input operator may have on nq qudits.
Locations(nq) ==
    {SortedSeq(S) : S \in {T \in SUBSET (0..(nq-1)) :
                              Cardinality(T) \in 1..MaxOpQudits}}

\* prev_list of a circuit: for each operator and each of its qudits, the
\* latest earlier operator on that qudit.
PrevList(locs) ==
    [i \in 1..Len(locs) |->
        [k \in 1..Len(locs[i]) |->
            LET before == {j \in 1..(i-1) : Contains(locs[j], locs[i][k])}
            IN  IF before = {} THEN None ELSE Some(Max(before) - 1)]]

\* next_list of a circuit: the earliest later operator on that qudit.
NextList(locs) ==
    [i \in 1..Len(locs) |->
        [k \in 1..Len(locs[i]) |->
            LET after == {j \in (i+1)..Len(locs) : Contains(locs[j], locs[i][k])}
            IN  IF after = {} THEN None ELSE Some(Min(after) - 1)]]

\* The expressions of a circuit: operator idx is named idx.
ExpressionList(locs) ==
    [i \in 1..Len(locs) |-> Expression(i - 1, Len(locs[i]), 0)]

\* The arguments of TreeBuilder::new for the circuit locs on nq qudits.
NewArgs(nq, locs) ==
    [num_qudits |-> nq, expression_list |-> ExpressionList(locs),
     qudits_list |-> locs, next_list |-> NextList(locs),
     prev_list |-> PrevList(locs)]

\* The node TreeBuilder::new makes of an operator: a Leaf when loc is
\* ascending, and otherwise a Perm of the Leaf, with loc sorted.
NewNode(expr, loc, nexts, prevs) ==
    IF \A k \in 1..(Len(loc) - 1) : loc[k] < loc[k + 1]
    THEN [node |-> Leaf(expr), qudits |-> loc, next |-> nexts,
          prev |-> prevs]
    ELSE [node |-> PermNodeNew(Leaf(expr),
                       locally_invert_location(radices(Leaf(expr)), loc)).val,
          qudits |-> SortedSeq(Range(loc)), next |-> nexts, prev |-> prevs]

\* The DAG TreeBuilder::new builds of a circuit.
NewDag(locs, nexts, prevs) ==
    [idx \in 0..(Len(locs)-1) |->
        NewNode(Expression(idx, Len(locs[idx+1]), 0), locs[idx+1],
                nexts[idx+1], prevs[idx+1])]

\* TreeBuilder::new without its test of num_qudits
TreeBuilderNewAnyWidth(a) ==
    IF \/ Len(a.expression_list) # Len(a.next_list)
       \/ Len(a.expression_list) # Len(a.prev_list)
       \/ Len(a.expression_list) # Len(a.qudits_list)
       \/ Len(a.expression_list) = 0
       \/ \E i \in 1..Len(a.expression_list) :
                \/ a.expression_list[i].nq # Len(a.next_list[i])
                \/ a.expression_list[i].nq # Len(a.prev_list[i])
                \/ a.expression_list[i].nq # Len(a.qudits_list[i])
    THEN Panic
    ELSE [ok |-> TRUE,
          num_qudits |-> a.num_qudits,
          dag |-> NewDag(a.qudits_list, a.next_list, a.prev_list),
          index_counter |-> Len(a.expression_list)]

\* TreeBuilder::new on the arguments a
TreeBuilderNew(a) ==
    IF \/ Len(a.expression_list) # Len(a.next_list)
       \/ Len(a.expression_list) # Len(a.prev_list)
       \/ Len(a.expression_list) # Len(a.qudits_list)
    THEN Panic
    ELSE IF a.num_qudits = 0 THEN Panic
    ELSE IF Len(a.expression_list) = 0 THEN Panic
    ELSE IF \E i \in 1..Len(a.expression_list) :
                \/ a.expression_list[i].nq # Len(a.next_list[i])
                \/ a.expression_list[i].nq # Len(a.prev_list[i])
                \/ a.expression_list[i].nq # Len(a.qudits_list[i])
    THEN Panic
    ELSE [ok |-> TRUE,
          num_qudits |-> a.num_qudits,
          dag |-> [idx \in 0..(Len(a.expression_list) - 1) |->
                     NewNode(a.expression_list[idx + 1],
                             a.qudits_list[idx + 1], a.next_list[idx + 1],
                             a.prev_list[idx + 1])],
          index_counter |-> Len(a.expression_list)]

BuilderInit ==
    /\ num_qudits \in 1..MaxQudits
    /\ qudits_list \in UNION {[1..n -> Locations(num_qudits)] : n \in 1..MaxOps}
    /\ new_args = NewArgs(num_qudits, qudits_list)
    /\ dag = NewDag(qudits_list, NextList(qudits_list), PrevList(qudits_list))
    /\ index_counter = Len(qudits_list)
    /\ pc = "multiply_first"
    /\ disjoint_size = 0
    /\ fused = 0
    /\ result = None
    /\ input_tree = None
    /\ optimized = FALSE
    /\ bytecode = None
    /\ vm = None
    /\ vm_pc = "idle"
    /\ calls = 0
    /\ last_call = None

----------------------------------------------------------------------------
\* Dependency analysis on the DAG


RECURSIVE project_to_right_loop(_, _, _, _, _, _, _)
\* the while loop of project_to_right: queue is the VecDeque
project_to_right_loop(d, nq, node_idx, queue, visited, seen_qudits, right_projection) ==
    IF queue = << >> THEN [ok |-> TRUE, val |-> right_projection]
    ELSE IF Head(queue) \in visited
    THEN project_to_right_loop(d, nq, node_idx, Tail(queue), visited,
                               seen_qudits, right_projection)
    ELSE IF Head(queue) \notin DOMAIN d THEN Panic
    ELSE
    LET idx == Head(queue)
        hit == idx # node_idx /\ \E q \in Range(d[idx].qudits) : q \notin seen_qudits
        seen2 == IF hit THEN seen_qudits \cup Range(d[idx].qudits) ELSE seen_qudits
        proj2 == IF hit THEN right_projection \cup {idx} ELSE right_projection
    IN  IF hit /\ Cardinality(seen2) = nq
        THEN [ok |-> TRUE, val |-> proj2]
        ELSE project_to_right_loop(d, nq, node_idx,
                                   Tail(queue) \o Somes(d[idx].next),
                                   visited \cup {idx}, seen2, proj2)

\* project_to_right that does not set the starting node apart
project_to_right_from_self(d, nq, node_idx) ==
    project_to_right_loop(d, nq, -1, <<node_idx>>, {}, {}, {})

\* TreeBuilder::project_to_right
project_to_right(d, nq, node_idx) ==
    project_to_right_loop(d, nq, node_idx, <<node_idx>>, {}, {}, {})

RECURSIVE has_non_direct_dependency_loop(_, _, _, _, _, _)
\* the while loop of has_non_direct_dependency: queue is a Vec used as a
\* stack; p is the result of project_to_right(idx_right)
has_non_direct_dependency_loop(d, idx_left, idx_right, p, queue, visited) ==
    IF ~p.ok THEN Panic
    ELSE IF queue = << >> THEN [ok |-> TRUE, val |-> FALSE]
    ELSE
    LET idx == queue[Len(queue)]
        rest == SubSeq(queue, 1, Len(queue) - 1)
    IN  IF idx = idx_right THEN [ok |-> TRUE, val |-> TRUE]
        ELSE IF idx \notin p.val /\ idx \notin visited /\ idx \notin DOMAIN d
        THEN Panic
        ELSE has_non_direct_dependency_loop(d, idx_left, idx_right, p,
                 IF idx \in p.val \/ idx \in visited
                 THEN rest
                 ELSE rest \o SelectSeq(Somes(d[idx].next),
                                        LAMBDA n : ~(idx = idx_left /\ n = idx_right)),
                 IF idx \in p.val THEN visited ELSE visited \cup {idx})

\* has_non_direct_dependency that follows the direct links as well
has_non_direct_dependency_any_path(d, nq, idx_left, idx_right) ==
    has_non_direct_dependency_loop(d, -1, idx_right,
                                   project_to_right(d, nq, idx_right),
                                   <<idx_left>>, {})

\* TreeBuilder::has_non_direct_dependency
has_non_direct_dependency(d, nq, idx_left, idx_right) ==
    has_non_direct_dependency_loop(d, idx_left, idx_right,
                                   project_to_right(d, nq, idx_right),
                                   <<idx_left>>, {})

----------------------------------------------------------------------------
\* Rewiring shared by the three fusion steps

RECURSIVE Relink(_, _, _, _, _, _, _)
\* For every Some(n) in ndn[from] with n not in skip: look node n up, find the
\* shared qudit in it and point its [to] entry at new_node_id.  b = [ok, dag].
Relink(b, ndn, from, to, new_node_id, skip, loc_idx) ==
    IF ~b.ok THEN Panic
    ELSE IF loc_idx > Len(ndn[from]) THEN b
    ELSE IF ndn[from][loc_idx] = None
    THEN Relink(b, ndn, from, to, new_node_id, skip, loc_idx + 1)
    ELSE
    LET n == ndn[from][loc_idx][1] IN
    Relink(IF n \in skip THEN b
           ELSE IF loc_idx > Len(ndn.qudits) \/ n \notin DOMAIN b.dag THEN Panic
           ELSE IF ~Contains(b.dag[n].qudits, ndn.qudits[loc_idx]) THEN Panic
           ELSE [ok |-> TRUE,
                 dag |-> [b.dag EXCEPT ![n][to][Position(b.dag[n].qudits,
                                             ndn.qudits[loc_idx])] = Some(new_node_id)]],
           ndn, from, to, new_node_id, skip, loc_idx + 1)

\* the four rewiring loops of the Kron and Contract steps, in source order
RelinkBoth(d, ndn_left, ndn_right, new_node_id, skip) ==
    Relink(Relink(Relink(Relink([ok |-> TRUE, dag |-> d],
                                ndn_left, "next", "prev", new_node_id, skip, 1),
                         ndn_left, "prev", "next", new_node_id, skip, 1),
                  ndn_right, "next", "prev", new_node_id, skip, 1),
           ndn_right, "prev", "next", new_node_id, skip, 1)

\* HashMap::remove of two keys
Remove(d, idx_left, idx_right) ==
    [k \in DOMAIN d \ {idx_left, idx_right} |-> d[k]]

\* HashMap::insert of the new node once its tree and the rewired DAG exist;
\* b = [ok, dag], tree = [ok, val]
Insert(b, tree, new_node_id, qudits, next, prev) ==
    IF ~b.ok \/ ~tree.ok THEN Panic
    ELSE [ok |-> TRUE,
          dag |-> [j \in DOMAIN b.dag \cup {new_node_id} |->
                      IF j = new_node_id
                      THEN [node |-> tree.val, qudits |-> qudits,
                            next |-> next, prev |-> prev]
                      ELSE b.dag[j]],
          index_counter |-> new_node_id + 1]

\* the orders in which a HashMap or HashSet may hand out its keys S
Orders(S) ==
    {o \in [1..Cardinality(S) -> S] :
        \A j, k \in 1..Cardinality(S) : j # k => o[j] # o[k]}

\* the comparator of dag_ordered_iter: by key, then by the number of qudits
\* of the subtree
index_order(d, a, b) ==
    a < b \/ (a = b /\ TreeNumQudits(d[a].node) <= TreeNumQudits(d[b].node))

RECURSIVE sort_by_index(_, _, _, _)
\* dag_vec.sort_by(..): every key of dag_vec from position i on is put
\* behind the last key of sorted that does not come after it
sort_by_index(d, dag_vec, i, sorted) ==
    IF i > Len(dag_vec) THEN sorted
    ELSE sort_by_index(d, dag_vec, i + 1,
            SelectSeq(sorted, LAMBDA k : index_order(d, k, dag_vec[i]))
            \o <<dag_vec[i]>>
            \o SelectSeq(sorted, LAMBDA k : ~index_order(d, k, dag_vec[i])))

\* dag_ordered_iter that hands out the keys as the HashMap does
dag_ordered_iter_unsorted(d, dag_vec) == dag_vec

\* dag_ordered_iter: dag_vec is self.dag.iter().collect(), the keys in the
\* order of the HashMap
dag_ordered_iter(d, dag_vec) == sort_by_index(d, dag_vec, 1, << >>)

----------------------------------------------------------------------------
\* multiply_all_possible_single_step

\* the body of the selection loop for node idx; acc = [ok, used, pairs]
mul_pairs_step(d, acc, idx) ==
    LET prevs == Range(Somes(d[idx].prev)) IN
    IF idx \in acc.used \/ Cardinality(prevs) # 1 THEN acc
    ELSE IF (CHOOSE p \in prevs : TRUE) \notin DOMAIN d THEN Panic
    ELSE IF d[idx].qudits = d[CHOOSE p \in prevs : TRUE].qudits
            /\ (CHOOSE p \in prevs : TRUE) \notin acc.used
    THEN [ok |-> TRUE,
          used |-> acc.used \cup {idx} \cup prevs,
          pairs |-> Append(acc.pairs, <<CHOOSE p \in prevs : TRUE, idx>>)]
    ELSE acc

RECURSIVE mul_pairs_loop(_, _, _, _)
\* the selection loop over dag_ordered_iter
mul_pairs_loop(d, keys, i, acc) ==
    IF ~acc.ok \/ i > Len(keys) THEN acc
    ELSE mul_pairs_loop(d, keys, i + 1, mul_pairs_step(d, acc, keys[i]))

\* mul_fuse with the two sides of the Mul node exchanged
mul_fuse_swapped(d, left, right, new_node_id) ==
    Insert(Relink(Relink([ok |-> TRUE, dag |-> d],
                         right, "next", "prev", new_node_id, {}, 1),
                  left, "prev", "next", new_node_id, {}, 1),
           MulNodeNew(right.node, left.node),
           new_node_id, left.qudits, right.next, left.prev)

\* the body of the update loop once both nodes are removed from the DAG d
mul_fuse(d, left, right, new_node_id) ==
    Insert(Relink(Relink([ok |-> TRUE, dag |-> d],
                         right, "next", "prev", new_node_id, {}, 1),
                  left, "prev", "next", new_node_id, {}, 1),
           MulNodeNew(left.node, right.node),
           new_node_id, left.qudits, right.next, left.prev)

RECURSIVE mul_apply_loop(_, _, _)
\* the update loop over mul_pairs; b = [ok, dag, index_counter]
mul_apply_loop(b, mul_pairs, i) ==
    IF ~b.ok THEN Panic
    ELSE IF i > Len(mul_pairs) THEN b
    ELSE mul_apply_loop(
           IF mul_pairs[i][1] \notin DOMAIN b.dag \/ mul_pairs[i][2] \notin DOMAIN b.dag
           THEN Panic
           ELSE mul_fuse(Remove(b.dag, mul_pairs[i][1], mul_pairs[i][2]),
                         b.dag[mul_pairs[i][1]], b.dag[mul_pairs[i][2]],
                         b.index_counter),
           mul_pairs, i + 1)

\* the second half of the step: sel = [ok, used, pairs] from the selection
mul_apply(d, ic, sel) ==
    IF ~sel.ok THEN Panic
    ELSE mul_apply_loop([ok |-> TRUE, dag |-> d, index_counter |-> ic], sel.pairs, 1)

\* TreeBuilder::multiply_all_possible_single_step on (dag, index_counter)
multiply_all_possible_single_step(d, ic, dag_vec) ==
    mul_apply(d, ic, mul_pairs_loop(d, dag_ordered_iter(d, dag_vec), 1,
                                    [ok |-> TRUE, used |-> {}, pairs |-> << >>]))

----------------------------------------------------------------------------
\* pairwise_kron_towards_multiply

\* The verdict on one candidate once the two dependency questions are
\* answered (first, second = [ok, val]); the second is only looked at when
\* the first found no dependency.
kron_verdict(first, second, fits) ==
    IF ~first.ok THEN Panic
    ELSE IF first.val THEN [ok |-> TRUE, val |-> FALSE]
    ELSE IF ~second.ok THEN Panic
    ELSE IF second.val THEN [ok |-> TRUE, val |-> FALSE]
    ELSE [ok |-> TRUE, val |-> fits]

\* The tests one candidate of the inner loop passes before it is compared
\* with the best so far.  towards_prev tells which of the two blocks runs:
\* the block over prev_nexts asks has_non_direct_dependency(cand, idx) first.
kron_candidate_ok(d, nq, idx, cand, remaining, towards_prev) ==
    IF cand \notin DOMAIN d THEN Panic
    ELSE IF \E q \in Range(d[cand].qudits) : ~Contains(remaining, q)
    THEN [ok |-> TRUE, val |-> FALSE]
    ELSE kron_verdict(
           has_non_direct_dependency(d, nq, IF towards_prev THEN cand ELSE idx,
                                            IF towards_prev THEN idx ELSE cand),
           has_non_direct_dependency(d, nq, IF towards_prev THEN idx ELSE cand,
                                            IF towards_prev THEN cand ELSE idx),
           \/ \A q \in Range(d[cand].qudits) : q < Min(Range(d[idx].qudits))
           \/ \A q \in Range(d[cand].qudits) : q > Max(Range(d[idx].qudits)))

\* the body of the inner loop: best = [ok, best_idx], c = [ok, val] is the
\* verdict on cand
kron_best_step(d, best, cand, used, c) ==
    IF cand \in used THEN best
    ELSE IF ~c.ok THEN Panic
    ELSE IF c.val /\ (best.best_idx = None
                      \/ (best.best_idx # None
                          /\ Len(d[best.best_idx[1]].qudits) < Len(d[cand].qudits)))
    THEN [ok |-> TRUE, best_idx |-> Some(cand)]
    ELSE best

RECURSIVE kron_best_loop(_, _, _, _, _, _, _, _, _)
\* the inner loop over prev_nexts (or next_prevs)
kron_best_loop(d, nq, idx, cands, used, remaining, towards_prev, i, best) ==
    IF ~best.ok \/ i > Len(cands) THEN best
    ELSE kron_best_loop(d, nq, idx, cands, used, remaining, towards_prev, i + 1,
             kron_best_step(d, best, cands[i], used,
                 kron_candidate_ok(d, nq, idx, cands[i], remaining, towards_prev)))

\* One of the two blocks of the outer loop body: the node has exactly one
\* neighbour (the hub) in direction from; its partner is sought among the
\* hub's neighbours in the opposite direction.  The result is [ok, best_idx].
kron_partner(d, nq, idx, used, from, back) ==
    IF Len(Somes(d[idx][from])) # 1 THEN [ok |-> TRUE, best_idx |-> None]
    ELSE IF Somes(d[idx][from])[1] \notin DOMAIN d THEN Panic
    ELSE kron_best_loop(d, nq, idx, Somes(d[Somes(d[idx][from])[1]][back]), used,
                        difference(d[Somes(d[idx][from])[1]].qudits, d[idx].qudits),
                        from = "prev", 1, [ok |-> TRUE, best_idx |-> None])

\* kron_pairs.push: the node with the smaller qudits goes to the left
kron_push(d, acc, idx, kron_idx) ==
    [ok |-> TRUE,
     used |-> acc.used \cup {idx, kron_idx},
     pairs |-> Append(acc.pairs,
                      IF d[kron_idx].qudits[1] < Min(Range(d[idx].qudits))
                      THEN <<kron_idx, idx>>
                      ELSE <<idx, kron_idx>>)]

\* the body of the outer loop for node idx: p and n = [ok, best_idx] are the
\* partners found through its prev and through its next; n is only looked at
\* when p found none.  acc = [ok, used, pairs]
kron_pairs_step(d, acc, idx, node_size, p, n) ==
    IF TreeNumQudits(d[idx].node) > node_size \/ idx \in acc.used THEN acc
    ELSE IF ~p.ok THEN Panic
    ELSE IF p.best_idx # None THEN kron_push(d, acc, idx, p.best_idx[1])
    ELSE IF ~n.ok THEN Panic
    ELSE IF n.best_idx # None THEN kron_push(d, acc, idx, n.best_idx[1])
    ELSE acc

RECURSIVE kron_pairs_loop(_, _, _, _, _, _)
\* the selection loop over dag_ordered_iter
kron_pairs_loop(d, nq, node_size, keys, i, acc) ==
    IF ~acc.ok \/ i > Len(keys) THEN acc
    ELSE kron_pairs_loop(d, nq, node_size, keys, i + 1,
             kron_pairs_step(d, acc, keys[i], node_size,
                 kron_partner(d, nq, keys[i], acc.used, "prev", "next"),
                 kron_partner(d, nq, keys[i], acc.used, "next", "prev")))

\* the body of the update loop once both nodes are removed from the DAG d
kron_fuse(d, ndn_left, ndn_right, new_node_id) ==
    Insert(RelinkBoth(d, ndn_left, ndn_right, new_node_id, {}),
           [ok |-> TRUE, val |-> KronNodeNew(ndn_left.node, ndn_right.node)],
           new_node_id,
           union(ndn_left.qudits, ndn_right.qudits),
           ndn_left.next \o ndn_right.next,
           ndn_left.prev \o ndn_right.prev)

RECURSIVE kron_apply_loop(_, _, _)
\* the update loop over kron_pairs; b = [ok, dag, index_counter]
kron_apply_loop(b, kron_pairs, i) ==
    IF ~b.ok THEN Panic
    ELSE IF i > Len(kron_pairs) THEN b
    ELSE kron_apply_loop(
           IF kron_pairs[i][1] \notin DOMAIN b.dag \/ kron_pairs[i][2] \notin DOMAIN b.dag
           THEN Panic
           ELSE kron_fuse(Remove(b.dag, kron_pairs[i][1], kron_pairs[i][2]),
                          b.dag[kron_pairs[i][1]], b.dag[kron_pairs[i][2]],
                          b.index_counter),
           kron_pairs, i + 1)

\* adds to the result of an update loop the number of pairs it fused
WithPairs(b, n) ==
    IF ~b.ok THEN Panic
    ELSE [ok |-> TRUE, dag |-> b.dag, index_counter |-> b.index_counter, pairs |-> n]

\* the second half of the step: sel = [ok, used, pairs] from the selection
kron_apply(d, ic, sel) ==
    IF ~sel.ok THEN Panic
    ELSE WithPairs(kron_apply_loop([ok |-> TRUE, dag |-> d, index_counter |-> ic],
                                   sel.pairs, 1),
                   Len(sel.pairs))

\* TreeBuilder::pairwise_kron_towards_multiply; the result carries the
\* number of pairs, whose being positive is the returned flag
pairwise_kron_towards_multiply(d, ic, nq, node_size, dag_vec) ==
    kron_apply(d, ic, kron_pairs_loop(d, nq, node_size,
                                      dag_ordered_iter(d, dag_vec), 1,
                                      [ok |-> TRUE, used |-> {}, pairs |-> << >>]))

----------------------------------------------------------------------------
\* contract_all_single_step

\* the body of the inner loop for one prev of node idx: h = [ok, val] answers
\* has_non_direct_dependency(prev, idx); acc = [ok, cands]
contract_prevs_step(d, acc, idx, prev, disjoint, h) ==
    IF prev \notin DOMAIN d THEN Panic
    ELSE IF Len(difference(union(d[idx].qudits, d[prev].qudits),
                           intersect(d[idx].qudits, d[prev].qudits))) > disjoint
    THEN acc
    ELSE IF ~h.ok THEN Panic
    ELSE IF h.val THEN acc
    ELSE [ok |-> TRUE,
          cands |-> Append(acc.cands,
                           <<Len(union(d[idx].qudits, d[prev].qudits)), prev, idx>>)]

RECURSIVE contract_prevs_loop(_, _, _, _, _, _, _)
\* the inner loop over the prevs of node idx
contract_prevs_loop(d, nq, disjoint, idx, prevs, i, acc) ==
    IF ~acc.ok \/ i > Len(prevs) THEN acc
    ELSE contract_prevs_loop(d, nq, disjoint, idx, prevs, i + 1,
             contract_prevs_step(d, acc, idx, prevs[i], disjoint,
                 has_non_direct_dependency(d, nq, prevs[i], idx)))

RECURSIVE contract_candidates_loop(_, _, _, _, _, _)
\* the outer loop over dag_ordered_iter
contract_candidates_loop(d, nq, disjoint, keys, i, acc) ==
    IF ~acc.ok \/ i > Len(keys) THEN acc
    ELSE contract_candidates_loop(d, nq, disjoint, keys, i + 1,
             contract_prevs_loop(d, nq, disjoint, keys[i],
                                 Somes(d[keys[i]].prev), 1, acc))

RECURSIVE sort_by_size(_, _, _)
\* Vec::sort_by on the first component: stable, sizes range over k..nq
sort_by_size(cands, k, nq) ==
    IF k > nq THEN << >>
    ELSE SelectSeq(cands, LAMBDA c : c[1] = k) \o sort_by_size(cands, k + 1, nq)

RECURSIVE contract_pairs_loop(_, _, _, _)
\* the greedy pass over the sorted candidates
contract_pairs_loop(cands, i, already_in_contract_this_round, contract_pairs) ==
    IF i > Len(cands) THEN contract_pairs
    ELSE IF cands[i][2] \in already_in_contract_this_round
            \/ cands[i][3] \in already_in_contract_this_round
    THEN contract_pairs_loop(cands, i + 1, already_in_contract_this_round, contract_pairs)
    ELSE contract_pairs_loop(cands, i + 1,
                             already_in_contract_this_round \cup {cands[i][2], cands[i][3]},
                             Append(contract_pairs, <<cands[i][2], cands[i][3]>>))

\* new_prev of the contracted node: the left node's where it has the qudit
contract_new_prev(ndn_left, ndn_right, new_location) ==
    [k \in 1..Len(new_location) |->
        IF Contains(ndn_left.qudits, new_location[k])
        THEN ndn_left.prev[Position(ndn_left.qudits, new_location[k])]
        ELSE ndn_right.prev[Position(ndn_right.qudits, new_location[k])]]

\* new_next of the contracted node: the right node's where it has the qudit
contract_new_next(ndn_left, ndn_right, new_location) ==
    [k \in 1..Len(new_location) |->
        IF Contains(ndn_right.qudits, new_location[k])
        THEN ndn_right.next[Position(ndn_right.qudits, new_location[k])]
        ELSE ndn_left.next[Position(ndn_left.qudits, new_location[k])]]

\* the body of the update loop once both nodes are removed from the DAG d
contract_fuse(d, ndn_left, ndn_right, new_node_id, skip, new_location) ==
    Insert(RelinkBoth(d, ndn_left, ndn_right, new_node_id, skip),
           ContractNodeNew(ndn_left.node, ndn_right.node,
                           ndn_left.qudits, ndn_right.qudits),
           new_node_id,
           new_location,
           contract_new_next(ndn_left, ndn_right, new_location),
           contract_new_prev(ndn_left, ndn_right, new_location))

RECURSIVE contract_apply_loop(_, _, _)
\* the update loop over contract_pairs; b = [ok, dag, index_counter]
contract_apply_loop(b, contract_pairs, i) ==
    IF ~b.ok THEN Panic
    ELSE IF i > Len(contract_pairs) THEN b
    ELSE contract_apply_loop(
           IF contract_pairs[i][1] \notin DOMAIN b.dag
              \/ contract_pairs[i][2] \notin DOMAIN b.dag
              \/ contract_pairs[i][1] = contract_pairs[i][2]
           THEN Panic
           ELSE contract_fuse(
                  Remove(b.dag, contract_pairs[i][1], contract_pairs[i][2]),
                  b.dag[contract_pairs[i][1]], b.dag[contract_pairs[i][2]],
                  b.index_counter,
                  {contract_pairs[i][1], contract_pairs[i][2]},
                  SortedSeq(Range(union(b.dag[contract_pairs[i][1]].qudits,
                                        b.dag[contract_pairs[i][2]].qudits)))),
           contract_pairs, i + 1)

\* the second half of the step: pairs is the result of the greedy pass
contract_apply(d, ic, pairs) ==
    WithPairs(contract_apply_loop([ok |-> TRUE, dag |-> d, index_counter |-> ic],
                                  pairs, 1),
              Len(pairs))

\* the selection of the step without the sort of the candidates
contract_select_unsorted(d, ic, nq, c) ==
    IF ~c.ok THEN Panic
    ELSE contract_apply(d, ic, contract_pairs_loop(c.cands, 1, {}, << >>))

\* the selection of the step: c = [ok, cands] from the candidate loops
contract_select(d, ic, nq, c) ==
    IF ~c.ok THEN Panic
    ELSE contract_apply(d, ic,
                        contract_pairs_loop(sort_by_size(c.cands, 1, nq), 1, {}, << >>))

\* TreeBuilder::contract_all_single_step; the result carries the number of
\* pairs it contracted
contract_all_single_step(d, ic, nq, disjoint, dag_vec) ==
    contract_select(d, ic, nq,
                    contract_candidates_loop(d, nq, disjoint,
                                             dag_ordered_iter(d, dag_vec), 1,
                                             [ok |-> TRUE, cands |-> << >>]))

\* TreeBuilder::kron_all_completely_disjoint: its body is commented out
kron_all_completely_disjoint(d) == d

----------------------------------------------------------------------------
\* build_tree, one action per step of its control flow

\* an outer loop that goes back to contract_all after its last step
AfterMultiplyBackToContract ==
    CASE pc = "multiply_first" -> "kron"
      [] pc = "multiply_after_kron" -> "contract"
      [] pc = "multiply_after_contract" -> "contract"

\* where build_tree continues once a multiply_all_possible loop has ended
AfterMultiply ==
    CASE pc = "multiply_first" -> "kron"
      [] pc = "multiply_after_kron" -> "contract"
      [] pc = "multiply_after_contract" ->
           IF disjoint_size < num_qudits THEN "kron" ELSE "join"

\* the effect of one iteration of multiply_all_possible whose single step
\* gave b; the loop ends with the first step that fuses nothing
MultiplyAllPossibleStep(b) ==
    IF ~b.ok
    THEN /\ pc' = "panic"
         /\ UNCHANGED <<dag, index_counter, disjoint_size>>
    ELSE /\ dag' = b.dag
         /\ index_counter' = b.index_counter
         /\ IF Cardinality(DOMAIN b.dag) = Cardinality(DOMAIN dag)
            THEN /\ pc' = AfterMultiply
                 /\ disjoint_size' = IF AfterMultiply = "kron"
                                     THEN disjoint_size + 1
                                     ELSE disjoint_size
            ELSE UNCHANGED <<pc, disjoint_size>>

\* self.multiply_all_possible(), one iteration of its loop
MultiplyAllPossible ==
    /\ pc \in {"multiply_first", "multiply_after_kron", "multiply_after_contract"}
    /\ \E dag_vec \in Orders(DOMAIN dag) :
          MultiplyAllPossibleStep(
              multiply_all_possible_single_step(dag, index_counter, dag_vec))
    /\ UNCHANGED <<num_qudits, qudits_list, new_args, fused, result>>
    /\ UNCHANGED vm_vars

\* the effect of a Kron or Contract step that gave b: control moves to
\* on_change when the step fused something and to on_same when it did not
FusionStep(b, on_change, on_same) ==
    IF ~b.ok
    THEN /\ pc' = "panic"
         /\ UNCHANGED <<dag, index_counter, fused>>
    ELSE /\ dag' = b.dag
         /\ index_counter' = b.index_counter
         /\ fused' = IF b.pairs > fused THEN b.pairs ELSE fused
         /\ pc' = IF Cardinality(DOMAIN b.dag) # Cardinality(DOMAIN dag)
                  THEN on_change
                  ELSE on_same

\* let kron_flag = self.pairwise_kron_towards_multiply(disjoint_size);
\* if kron_flag { self.multiply_all_possible(); }
PairwiseKronTowardsMultiply ==
    /\ pc = "kron"
    /\ \E dag_vec \in Orders(DOMAIN dag) :
          FusionStep(pairwise_kron_towards_multiply(dag, index_counter, num_qudits,
                                                    disjoint_size, dag_vec),
                     "multiply_after_kron", "contract")
    /\ UNCHANGED <<num_qudits, qudits_list, new_args, disjoint_size, result>>
    /\ UNCHANGED vm_vars

\* self.contract_all(disjoint_size), one iteration of its loop
ContractAll ==
    /\ pc = "contract"
    /\ \E dag_vec \in Orders(DOMAIN dag) :
          FusionStep(contract_all_single_step(dag, index_counter, num_qudits,
                                              disjoint_size, dag_vec),
                     "contract", "multiply_after_contract")
    /\ UNCHANGED <<num_qudits, qudits_list, new_args, disjoint_size, result>>
    /\ UNCHANGED vm_vars

\* if self.dag.len() != 1 { self.kron_all_completely_disjoint(); }
KronAllCompletelyDisjoint ==
    /\ pc = "join"
    /\ dag' = IF Cardinality(DOMAIN dag) # 1
              THEN kron_all_completely_disjoint(dag)
              ELSE dag
    /\ pc' = "assert"
    /\ UNCHANGED <<num_qudits, qudits_list, new_args, index_counter, disjoint_size,
                   fused, result>>
    /\ UNCHANGED vm_vars

\* assert!(self.dag.len() == 1); return the node of the only entry
Return ==
    /\ pc = "assert"
    /\ IF Cardinality(DOMAIN dag) = 1
       THEN /\ result' = Some(dag[CHOOSE k \in DOMAIN dag : TRUE].node)
            /\ pc' = "done"
       ELSE /\ pc' = "panic"
            /\ UNCHANGED result
    /\ UNCHANGED <<num_qudits, qudits_list, new_args, dag, index_counter, disjoint_size,
                   fused>>
    /\ UNCHANGED vm_vars

vars == <<builder_vars, vm_vars>>

Next ==
    \/ MultiplyAllPossible
    \/ PairwiseKronTowardsMultiply
    \/ ContractAll
    \/ KronAllCompletelyDisjoint
    \/ Return

Spec == BuilderInit /\ [][Next]_vars

----------------------------------------------------------------------------
\* TreeOptimizer (src/src/tree/optimizer.rs)

\* UnitaryExpression::otimes: the Kronecker product of two expressions
otimes(a, b) ==
    ExpressionOn(<<"(">> \o a.name \o <<"otimes">> \o b.name \o <<")">>,
                 a.radices \o b.radices, a.np + b.np)

\* UnitaryExpression::dot: the matrix product a * b of two expressions
dot(a, b) ==
    ExpressionOn(<<"(">> \o a.name \o <<"dot">> \o b.name \o <<")">>,
                 a.radices, a.np + b.np)

\* the Kron arm of fuse_common_operations, on the fused children
fuse_kron(left, right) ==
    IF left.kind = "Leaf" /\ right.kind = "Leaf"
    THEN Leaf(otimes(left.expr, right.expr))
    ELSE KronNodeNew(left, right)

\* the Mul arm of fuse_common_operations, on the fused children
fuse_mul(left, right) ==
    IF left.kind = "Leaf" /\ right.kind = "Leaf"
    THEN Leaf(dot(right.expr, left.expr))
    ELSE MulNodeNew(left, right).val

RECURSIVE fuse_common_operations(_)
fuse_common_operations(tree) ==
    CASE tree.kind = "Kron" ->
            fuse_kron(fuse_common_operations(tree.left),
                      fuse_common_operations(tree.right))
      [] tree.kind = "Mul" ->
            fuse_mul(fuse_common_operations(tree.left),
                     fuse_common_operations(tree.right))
      [] tree.kind = "Contract" ->
            ContractNodeNew(fuse_common_operations(tree.left),
                            fuse_common_operations(tree.right),
                            tree.left_qudits, tree.right_qudits).val
      [] tree.kind = "Perm" ->
            PermNodeNew(fuse_common_operations(tree.child), tree.perm).val
      [] OTHER -> tree

\* fuse_output_perm with the two permutations composed the other way round
fuse_output_perm_backwards(node, perm, new_shape) ==
    [node EXCEPT
        !.pre_out_perm = [i \in 1..Len(perm) |-> perm[node.pre_out_perm[i] + 1]],
        !.out_matrix_shape = new_shape]

\* ContractNode::fuse_output_perm
fuse_output_perm(node, perm, new_shape) ==
    [node EXCEPT
        !.pre_out_perm = [i \in 1..Len(perm) |-> node.pre_out_perm[perm[i] + 1]],
        !.out_matrix_shape = new_shape]

\* the left half of fuse_contraction_pre_post_permutations
fuse_left_permutation(node) ==
    IF node.left.kind = "Contract"
    THEN [node EXCEPT
            !.left = fuse_output_perm(node.left, node.left_perm,
                                      node.left_contraction_shape),
            !.skip_left = TRUE]
    ELSE node

\* the right half of fuse_contraction_pre_post_permutations
fuse_right_permutation(node) ==
    IF node.right.kind = "Contract"
    THEN [node EXCEPT
            !.right = fuse_output_perm(node.right, node.right_perm,
                                       node.right_contraction_shape),
            !.skip_right = TRUE]
    ELSE node

fuse_contraction_pre_post_permutations(tree) ==
    IF tree.kind = "Contract"
    THEN fuse_right_permutation(fuse_left_permutation(tree))
    ELSE tree

RECURSIVE traverse_mut(_)
RECURSIVE traverse_children(_)
\* ExpressionTree::traverse_mut after f has visited the node itself
traverse_children(tree) ==
    CASE tree.kind = "Leaf" -> tree
      [] tree.kind \in {"Constant", "Perm"} ->
            [tree EXCEPT !.child = traverse_mut(tree.child)]
      [] OTHER ->
            [tree EXCEPT !.left = traverse_mut(tree.left),
                         !.right = traverse_mut(tree.right)]

\* ExpressionTree::traverse_mut with f = fuse_contraction_pre_post_permutations
traverse_mut(tree) ==
    traverse_children(fuse_contraction_pre_post_permutations(tree))

\* TreeOptimizer::constant_propagation
RECURSIVE constant_propagation(_)
constant_propagation(tree) ==
    IF num_params(tree) = 0 THEN ConstantNodeNew(tree)
    ELSE CASE tree.kind \in {"Kron", "Mul", "Contract"} ->
                [tree EXCEPT !.left = constant_propagation(tree.left),
                             !.right = constant_propagation(tree.right)]
           [] tree.kind = "Perm" ->
                [tree EXCEPT !.child = constant_propagation(tree.child)]
           [] OTHER -> tree

\* optimize with a last pass that wraps the root whatever its parameters
optimize_wraps_root(tree) ==
    ConstantNodeNew(traverse_mut(fuse_common_operations(tree)))

\* TreeOptimizer::optimize
optimize(tree) ==
    constant_propagation(traverse_mut(fuse_common_operations(tree)))

----------------------------------------------------------------------------
\* Bytecode (src/src/bytecode)

\* MatrixBuffer
MatrixBuffer(nrows, ncols, np) ==
    [nrows |-> nrows, ncols |-> ncols, num_params |-> np]

\* GeneralizedInstruction::Write(expr, param offset, buffer)
Write(expr, param_pointer, index) ==
    [op |-> "Write", expr |-> expr, idx |-> param_pointer, out |-> index]

\* GeneralizedInstruction::Matmul(a, b, c)
Matmul(a, b, c) == [op |-> "Matmul", left |-> a, right |-> b, out |-> c]

\* GeneralizedInstruction::Kron(a, b, c)
Kron(a, b, c) == [op |-> "Kron", left |-> a, right |-> b, out |-> c]

\* GeneralizedInstruction::FRPR(in, shape, perm, out)
FRPR(in_index, shape, perm, out_index) ==
    [op |-> "FRPR", input |-> in_index, shape |-> shape, perm |-> perm,
     out |-> out_index]

\* offset_buffer_indices that leaves the buffer ids of the subgenerator
offset_buffer_indices_unshifted(inst, offset) == inst

\* GeneralizedInstruction::offset_buffer_indices
offset_buffer_indices(inst, offset) ==
    CASE inst.op = "Write" -> [inst EXCEPT !.out = @ + offset]
      [] inst.op = "FRPR" ->
            [inst EXCEPT !.input = @ + offset, !.out = @ + offset]
      [] OTHER ->
            [inst EXCEPT !.left = @ + offset, !.right = @ + offset,
                         !.out = @ + offset]

\* buffer_map.get(index), the index itself when the map has no such key
Remapped(buffer_map, index) ==
    IF index \in DOMAIN buffer_map THEN buffer_map[index] ELSE index

\* GeneralizedInstruction::replace_buffer_indices
replace_buffer_indices(inst, buffer_map) ==
    CASE inst.op = "Write" ->
            [inst EXCEPT !.out = Remapped(buffer_map, @)]
      [] inst.op = "FRPR" ->
            [inst EXCEPT !.input = Remapped(buffer_map, @),
                         !.out = Remapped(buffer_map, @)]
      [] OTHER ->
            [inst EXCEPT !.left = Remapped(buffer_map, @),
                         !.right = Remapped(buffer_map, @),
                         !.out = Remapped(buffer_map, @)]

\* BytecodeGenerator::new; a HashMap is a function on its keys
\* ok is cleared when parse panics
BytecodeGeneratorNew ==
    [static_code |-> << >>, dynamic_code |-> << >>, matrix_buffers |-> << >>,
     param_counter |-> 0, static_tree_cache |-> << >>, ok |-> TRUE]

\* BytecodeGenerator::get_new_buffer: the generator after the push and the
\* index of the new buffer
get_new_buffer(g, nrows, ncols, np) ==
    [g |-> [g EXCEPT !.matrix_buffers = Append(@, MatrixBuffer(nrows, ncols, np))],
     out |-> Len(g.matrix_buffers)]

\* self.dynamic_code.push(inst) with b the result of get_new_buffer
push_dynamic(b, inst) ==
    [g |-> [b.g EXCEPT !.dynamic_code = Append(@, inst)], out |-> b.out]

\* the results of parsing the two children, in order
ParsedChildren(left, r) == [g |-> r.g, left |-> left, right |-> r.out]

\* the Kron arm of parse, after its children
parse_kron_push(c, b) == push_dynamic(b, Kron(c.left, c.right, b.out))

parse_kron(n, c) ==
    parse_kron_push(c, get_new_buffer(c.g, dimension(n), dimension(n),
                                      num_params(n)))

\* the Mul arm of parse, after its children: the operands are exchanged
parse_mul_push(c, b) == push_dynamic(b, Matmul(c.right, c.left, b.out))

parse_mul(n, c) ==
    parse_mul_push(c, get_new_buffer(c.g, dimension(n), dimension(n),
                                     num_params(n)))

\* the Leaf arm of parse
parse_leaf_push(g, expr, b) ==
    [g |-> [b.g EXCEPT
                !.dynamic_code = Append(@, Write(expr, g.param_counter, b.out)),
                !.param_counter = @ + expr.np],
     out |-> b.out]

parse_leaf(g, expr) ==
    parse_leaf_push(g, expr,
        get_new_buffer(g, Product(expr.radices), Product(expr.radices),
                       expr.np))

\* the left pre-permutation of the Contract arm of parse
parse_contract_left_push(c, n, b) ==
    [g |-> [b.g EXCEPT !.dynamic_code =
                Append(@, FRPR(c.left, n.left_tensor_shape, n.left_perm, b.out))],
     left |-> b.out, right |-> c.right]

parse_contract_left(n, c) ==
    IF ~n.skip_left
    THEN parse_contract_left_push(c, n,
            get_new_buffer(c.g, n.left_contraction_shape[1],
                           n.left_contraction_shape[2], num_params(n.left)))
    ELSE c

\* the right pre-permutation of the Contract arm of parse
parse_contract_right_push(c, n, b) ==
    [g |-> [b.g EXCEPT !.dynamic_code =
                Append(@, FRPR(c.right, n.right_tensor_shape, n.right_perm, b.out))],
     left |-> c.left, right |-> b.out]

parse_contract_right(n, c) ==
    IF ~n.skip_right
    THEN parse_contract_right_push(c, n,
            get_new_buffer(c.g, n.right_contraction_shape[1],
                           n.right_contraction_shape[2], num_params(n.right)))
    ELSE c

\* the Matmul of the Contract arm of parse: the operands are exchanged
parse_contract_matmul_push(c, b) ==
    push_dynamic(b, Matmul(c.right, c.left, b.out))

parse_contract_matmul(n, c) ==
    parse_contract_matmul_push(c,
        get_new_buffer(c.g, n.right_contraction_shape[1],
                       n.left_contraction_shape[2], num_params(n)))

\* the post-permutation of the Contract arm of parse
parse_contract_out_push(pre_out, n, b) ==
    push_dynamic(b, FRPR(pre_out.out, n.pre_out_tensor_shape, n.pre_out_perm,
                         b.out))

parse_contract_out(n, pre_out) ==
    parse_contract_out_push(pre_out, n,
        get_new_buffer(pre_out.g, n.out_matrix_shape[1],
                       n.out_matrix_shape[2], num_params(n)))

parse_contract(n, c) ==
    parse_contract_out(n,
        parse_contract_matmul(n,
            parse_contract_right(n, parse_contract_left(n, c))))

\* the Constant arm of parse that does not remember the tree it compiled
parse_constant_uncached(g, tree, code) ==
    [g |-> [g EXCEPT
                !.ok = @ /\ code.ok /\ Len(code.static_code) = 0,
                !.matrix_buffers = @ \o code.matrix_buffers,
                !.static_code = @ \o
                    [i \in 1..Len(code.dynamic_code) |->
                        offset_buffer_indices(code.dynamic_code[i],
                                              Len(g.matrix_buffers))]],
     out |-> Len(g.matrix_buffers) + Len(code.matrix_buffers) - 1]

\* the Constant arm of parse on a cache miss; code is the bytecode of the
\* child, compiled by a fresh generator; assert!(code.static_code.len() == 0)
\* fails when the child holds a Constant itself
parse_constant(g, tree, code) ==
    [g |-> [g EXCEPT
                !.ok = @ /\ code.ok /\ Len(code.static_code) = 0,
                !.matrix_buffers = @ \o code.matrix_buffers,
                !.static_code = @ \o
                    [i \in 1..Len(code.dynamic_code) |->
                        offset_buffer_indices(code.dynamic_code[i],
                                              Len(g.matrix_buffers))],
                !.static_tree_cache =
                    Append(@, <<tree, Len(g.matrix_buffers)
                                      + Len(code.matrix_buffers) - 1>>)],
     out |-> Len(g.matrix_buffers) + Len(code.matrix_buffers) - 1]

\* self.static_tree_cache[tree]; the cache is kept as a list of pairs
CacheGet(cache, tree) ==
    cache[CHOOSE i \in 1..Len(cache) : cache[i][1] = tree][2]

RECURSIVE parse(_, _)
RECURSIVE parse_right(_, _)
\* parse of the right child, after the left child gave l
parse_right(right, l) == ParsedChildren(l.out, parse(l.g, right))

\* BytecodeGenerator::parse: the generator afterwards and the buffer that
\* holds the value of the tree.  The Perm arm is unreachable!(), a panic;
\* what the arms above it would have added to the generator is not used.
parse(g, tree) ==
    CASE ~g.ok -> [g |-> g, out |-> 0]
      [] tree.kind = "Perm" -> [g |-> [g EXCEPT !.ok = FALSE], out |-> 0]
      [] tree.kind = "Kron" ->
            parse_kron(tree, parse_right(tree.right, parse(g, tree.left)))
      [] tree.kind = "Mul" ->
            parse_mul(tree, parse_right(tree.right, parse(g, tree.left)))
      [] tree.kind = "Leaf" -> parse_leaf(g, tree.expr)
      [] tree.kind = "Constant" ->
            IF \E i \in 1..Len(g.static_tree_cache) :
                    g.static_tree_cache[i][1] = tree
            THEN [g |-> g, out |-> CacheGet(g.static_tree_cache, tree)]
            ELSE parse_constant(g, tree,
                                parse(BytecodeGeneratorNew, tree.child).g)
      [] tree.kind = "Contract" ->
            parse_contract(tree,
                           parse_right(tree.right, parse(g, tree.left)))

\* the Bytecode generate builds out of the generator; ok is whether
\* generate returned it
Bytecode(g) ==
    [static_code |-> g.static_code, dynamic_code |-> g.dynamic_code,
     matrix_buffers |-> g.matrix_buffers, ok |-> g.ok]

\* BytecodeGenerator::generate
generate(tree) == Bytecode(parse(BytecodeGeneratorNew, tree).g)

\* the test remove_identity_frpr makes on an FRPR: equal shapes and the
\* identity permutation
IsIdentityFRPR(matrix_buffers, inst) ==
    /\ matrix_buffers[inst.input + 1].nrows = matrix_buffers[inst.out + 1].nrows
    /\ matrix_buffers[inst.input + 1].ncols = matrix_buffers[inst.out + 1].ncols
    /\ \A i \in 1..Len(inst.perm) : inst.perm[i] = i - 1

\* one turn of the loop of remove_identity_frpr
remove_identity_frpr_step(code, acc, inst) ==
    IF inst.op = "FRPR" /\ IsIdentityFRPR(code.matrix_buffers, inst)
    THEN [acc EXCEPT !.buffer_remap = (inst.out :> inst.input) @@ @]
    ELSE [acc EXCEPT !.opt_code =
            Append(@, replace_buffer_indices(inst, acc.buffer_remap))]

RECURSIVE remove_identity_frpr_loop(_, _, _)
remove_identity_frpr_loop(code, i, acc) ==
    IF i > Len(code.dynamic_code) THEN acc
    ELSE remove_identity_frpr_loop(code, i + 1,
            remove_identity_frpr_step(code, acc, code.dynamic_code[i]))

remove_identity_frpr(code) ==
    [code EXCEPT !.dynamic_code =
        remove_identity_frpr_loop(code, 1,
            [opt_code |-> << >>, buffer_remap |-> << >>]).opt_code]

\* StaticBytecodeOptimizer::optimize: deduplicate_gate_gen leaves
\* replaced_buffers empty, replace_buffers applies it to every instruction
StaticBytecodeOptimizerOptimize(code) ==
    [code EXCEPT
        !.static_code =
            [i \in 1..Len(@) |-> replace_buffer_indices(@[i], << >>)],
        !.dynamic_code =
            [i \in 1..Len(@) |-> replace_buffer_indices(@[i], << >>)]]

\* the passes of compile over the code generate returned, if it returned
compile_passes(code) ==
    IF code.ok
    THEN remove_identity_frpr(StaticBytecodeOptimizerOptimize(code))
    ELSE Panic

\* compile
compile(tree) == compile_passes(generate(tree))

----------------------------------------------------------------------------
\* Matrices.  The value of a matrix is the term that computes it.

\* a matrix of alloc_zeroed_memory
ZeroMatrix == <<"zero">>

\* the matrix after its diagonal has been set to one
WithUnitDiagonal(m) == IF m = ZeroMatrix THEN <<"eye">> ELSE <<"diag", m>>

\* what the kernel utry_fn of expr writes for gate_params; idx records the
\* place of gate_params in the global parameter vector
KernelUnitary(expr, idx, gate_params) == <<"W", expr, idx, gate_params>>

\* the k-th gradient matrix the kernel utry_grad_fn of expr writes
KernelGradient(expr, idx, gate_params, k) ==
    <<"dW", expr, idx, gate_params, k>>

\* qudit_core::accel::matmul_unchecked
matmul_unchecked(left, right) == <<"mm", left, right>>

\* the Kronecker product of two matrices
kron(left, right) == <<"kron", left, right>>

\* qudit_core::accel::fused_reshape_permute_reshape_into_impl: reshaping to
\* the tensor shape, the identity permutation and reshaping back to a
\* matrix of the same shape leaves the matrix as it is
fused_reshape_permute_reshape(m, in_buffer, shape, perm, out_buffer) ==
    IF /\ in_buffer.nrows = out_buffer.nrows
       /\ in_buffer.ncols = out_buffer.ncols
       /\ \A i \in 1..Len(perm) : perm[i] = i - 1
    THEN m
    ELSE <<"frpr", m, shape, perm, out_buffer.nrows, out_buffer.ncols>>

RECURSIVE DependsOn(_, _)
\* whether matrix m is computed from entry i of the parameter vector
DependsOn(m, i) ==
    CASE m[1] = "W" -> m[3] <= i /\ i < m[3] + m[2].np
      [] m[1] \in {"mm", "kron"} -> DependsOn(m[2], i) \/ DependsOn(m[3], i)
      [] m[1] \in {"frpr", "diag"} -> DependsOn(m[2], i)
      [] OTHER -> FALSE

RECURSIVE Derivative(_, _)
\* the derivative of matrix m by entry i of the parameter vector, for an m
\* whose kernels use disjoint parts of the vector
Derivative(m, i) ==
    CASE m[1] = "W" ->
            IF DependsOn(m, i)
            THEN KernelGradient(m[2], m[3], m[4], i - m[3])
            ELSE ZeroMatrix
      [] m[1] \in {"mm", "kron"} ->
            IF DependsOn(m[2], i)
            THEN <<m[1], Derivative(m[2], i), m[3]>>
            ELSE <<m[1], m[2], Derivative(m[3], i)>>
      [] m[1] = "frpr" ->
            <<"frpr", Derivative(m[2], i), m[3], m[4], m[5], m[6]>>
      [] OTHER -> ZeroMatrix

----------------------------------------------------------------------------
\* The QVM (src/src/qvm.rs) and its instructions.  A buffer of the memory
\* is a record of its unitary matrix and its gradient matrices; buffer b of
\* the program is memory[b + 1].

DifferentiationLevels == {"None", "Gradient", "Hessian"}

\* DifferentiationLevel::gradient_capable
gradient_capable(diff_lvl) == diff_lvl \in {"Gradient", "Hessian"}

\* DifferentiationLevel::hessian_capable
hessian_capable(diff_lvl) == diff_lvl = "Hessian"

\* The columns of a matrix are padded to a multiple of this many elements.
Alignment == 4

\* qudit_core::memory::calc_col_stride: the rows of a column and its padding
calc_col_stride(nrows, ncols) ==
    ((nrows + Alignment - 1) \div Alignment) * Alignment

\* qudit_core::memory::calc_mat_stride: the columns of a matrix
calc_mat_stride(nrows, ncols, col_stride) == col_stride * ncols

\* the SizedMatrixBuffer Bytecode::specialize makes of buffer at offset
SizedMatrixBuffer(offset, buffer) ==
    [offset |-> offset, nrows |-> buffer.nrows, ncols |-> buffer.ncols,
     col_stride |-> calc_col_stride(buffer.nrows, buffer.ncols),
     mat_stride |-> calc_mat_stride(buffer.nrows, buffer.ncols,
                        calc_col_stride(buffer.nrows, buffer.ncols)),
     num_params |-> buffer.num_params]

\* one turn of the loop of Bytecode::specialize that leaves no room for
\* the gradient
specialize_step_no_gradient(acc, sized, diff_lvl) ==
    [sized_buffers |-> Append(acc.sized_buffers, sized),
     offset |-> acc.offset + sized.mat_stride
                + (IF hessian_capable(diff_lvl)
                   THEN (sized.mat_stride
                         * (sized.num_params * (sized.num_params + 1)))
                        \div 2
                   ELSE 0)]

\* one turn of the loop of Bytecode::specialize: sized is pushed and offset
\* moves past its matrices
specialize_step(acc, sized, diff_lvl) ==
    [sized_buffers |-> Append(acc.sized_buffers, sized),
     offset |-> acc.offset + sized.mat_stride
                + (IF gradient_capable(diff_lvl)
                   THEN sized.mat_stride * sized.num_params
                   ELSE 0)
                + (IF hessian_capable(diff_lvl)
                   THEN (sized.mat_stride
                         * (sized.num_params * (sized.num_params + 1)))
                        \div 2
                   ELSE 0)]

RECURSIVE specialize_loop(_, _, _, _)
specialize_loop(matrix_buffers, i, diff_lvl, acc) ==
    IF i > Len(matrix_buffers) THEN acc
    ELSE specialize_loop(matrix_buffers, i + 1, diff_lvl,
            specialize_step(acc,
                SizedMatrixBuffer(acc.offset, matrix_buffers[i]), diff_lvl))

\* Bytecode::specialize: the sized buffers and the memory size (offset)
specialize(program, diff_lvl) ==
    specialize_loop(program.matrix_buffers, 1, diff_lvl,
                    [sized_buffers |-> << >>, offset |-> 0])

\* QVM::new: the instructions of the program over zeroed memory
QVMNew(program, diff_lvl) ==
    [first_run |-> TRUE,
     static_instructions |-> program.static_code,
     dynamic_instructions |-> program.dynamic_code,
     buffers |-> specialize(program, diff_lvl).sized_buffers,
     memory_size |-> specialize(program, diff_lvl).offset,
     memory |->
        [b \in 1..Len(program.matrix_buffers) |->
            [utry |-> ZeroMatrix,
             grad |-> [k \in 1..(IF gradient_capable(diff_lvl)
                                 THEN program.matrix_buffers[b].num_params
                                 ELSE 0) |-> ZeroMatrix]]],
     diff_lvl |-> diff_lvl]

\* gate_params of a Write: params[idx .. idx + num_params]
gate_params(inst, buffers, params) ==
    SubSeq(params, inst.idx + 1, inst.idx + buffers[inst.out + 1].num_params)

\* calculate_unitary of an instruction (for a Write, the kernel utry_fn);
\* the Kron instruction computes the Kronecker product of its operands
calculate_unitary(inst, buffers, params, memory) ==
    CASE inst.op = "Write" ->
            KernelUnitary(inst.expr, inst.idx,
                          gate_params(inst, buffers, params))
      [] inst.op = "Matmul" ->
            matmul_unchecked(memory[inst.left + 1].utry,
                             memory[inst.right + 1].utry)
      [] inst.op = "Kron" ->
            kron(memory[inst.left + 1].utry, memory[inst.right + 1].utry)
      [] inst.op = "FRPR" ->
            fused_reshape_permute_reshape(memory[inst.input + 1].utry,
                buffers[inst.input + 1], inst.shape, inst.perm,
                buffers[inst.out + 1])

\* MatmulStruct::calculate_gradient: the gradient matrices of the first
\* operand times the second operand, then the first operand times the
\* gradient matrices of the second
matmul_calculate_gradient(inst, buffers, memory) ==
    [i \in 1..buffers[inst.left + 1].num_params |->
        matmul_unchecked(memory[inst.left + 1].grad[i],
                         memory[inst.right + 1].utry)]
    \o [i \in 1..buffers[inst.right + 1].num_params |->
        matmul_unchecked(memory[inst.left + 1].utry,
                         memory[inst.right + 1].grad[i])]

\* the gradient of a Kron instruction: as that of a Matmul, with the
\* Kronecker product for the matrix product
kron_calculate_gradient(inst, buffers, memory) ==
    [i \in 1..buffers[inst.left + 1].num_params |->
        kron(memory[inst.left + 1].grad[i], memory[inst.right + 1].utry)]
    \o [i \in 1..buffers[inst.right + 1].num_params |->
        kron(memory[inst.left + 1].utry, memory[inst.right + 1].grad[i])]

\* calculate_gradient of an instruction (for a Write, the gradient part of
\* the kernel utry_grad_fn): the gradient matrices it writes, in order
calculate_gradient(inst, buffers, params, memory) ==
    CASE inst.op = "Write" ->
            [k \in 1..buffers[inst.out + 1].num_params |->
                KernelGradient(inst.expr, inst.idx,
                               gate_params(inst, buffers, params), k - 1)]
      [] inst.op = "Matmul" ->
            matmul_calculate_gradient(inst, buffers, memory)
      [] inst.op = "Kron" ->
            kron_calculate_gradient(inst, buffers, memory)
      [] inst.op = "FRPR" ->
            [i \in 1..buffers[inst.input + 1].num_params |->
                fused_reshape_permute_reshape(memory[inst.input + 1].grad[i],
                    buffers[inst.input + 1], inst.shape, inst.perm,
                    buffers[inst.out + 1])]

\* the gradient matrices grads written over the first ones of out_grad
write_gradient(out_grad, grads) ==
    [k \in 1..Len(out_grad) |->
        IF k <= Len(grads) THEN grads[k] ELSE out_grad[k]]

\* SpecializedInstruction::execute_unitary
execute_unitary(inst, buffers, params, memory) ==
    [memory EXCEPT ![inst.out + 1].utry =
        calculate_unitary(inst, buffers, params, memory)]

\* SpecializedInstruction::execute_unitary_and_gradient
execute_unitary_and_gradient(inst, buffers, params, memory) ==
    [memory EXCEPT ![inst.out + 1] =
        [utry |-> calculate_unitary(inst, buffers, params, memory),
         grad |-> write_gradient(@.grad,
                    calculate_gradient(inst, buffers, params, memory))]]

\* one instruction of the loop of a call, at the level of the call
execute(inst, buffers, params, with_gradient, memory) ==
    IF with_gradient
    THEN execute_unitary_and_gradient(inst, buffers, params, memory)
    ELSE execute_unitary(inst, buffers, params, memory)

RECURSIVE execute_all(_, _, _, _, _, _, _, _)
\* instructions i .. last of insts executed in order; run is the memory and
\* the trace of the instructions executed so far
execute_all(insts, i, last, tag, buffers, params, with_gradient, run) ==
    IF i > last THEN run
    ELSE execute_all(insts, i + 1, last, tag, buffers, params, with_gradient,
            [memory |-> execute(insts[i], buffers, params, with_gradient,
                                run.memory),
             trace |-> Append(run.trace, <<tag, i>>)])

RECURSIVE warm_up(_, _, _)
\* the first loops of first_run: the diagonal of the destination of every
\* Write of insts is set to one
warm_up(insts, i, run) ==
    IF i > Len(insts) THEN run
    ELSE warm_up(insts, i + 1,
            IF insts[i].op = "Write"
            THEN [memory |-> [run.memory EXCEPT ![insts[i].out + 1].utry =
                                 WithUnitDiagonal(@)],
                  trace |-> Append(run.trace, <<"warm", insts[i].out>>)]
            ELSE run)

\* first_run with the flag left set
first_run_keeps_flag(qvm, run) ==
    IF ~qvm.first_run THEN [first_run |-> FALSE, run |-> run]
    ELSE [first_run |-> TRUE,
          run |-> execute_all(qvm.static_instructions, 1,
                    Len(qvm.static_instructions), "static", qvm.buffers,
                    << >>, FALSE,
                    warm_up(qvm.dynamic_instructions, 1,
                        warm_up(qvm.static_instructions, 1, run)))]

\* QVM::first_run
first_run(qvm, run) ==
    IF ~qvm.first_run THEN [first_run |-> FALSE, run |-> run]
    ELSE [first_run |-> FALSE,
          run |-> execute_all(qvm.static_instructions, 1,
                    Len(qvm.static_instructions), "static", qvm.buffers,
                    << >>, FALSE,
                    warm_up(qvm.dynamic_instructions, 1,
                        warm_up(qvm.static_instructions, 1, run)))]

\* the state of a call that starts on qvm: its memory and an empty trace
Entered(qvm) == [memory |-> qvm.memory, trace |-> << >>]

\* the loop of a call over the dynamic instructions 1 .. last, after
\* first_run has left st
dynamic_loop(qvm, params, with_gradient, last, st) ==
    [first_run |-> st.first_run,
     run |-> execute_all(qvm.dynamic_instructions, 1, last, "dynamic",
                qvm.buffers, params, with_gradient, st.run)]

\* the QVM a call leaves and what the call hands back: whether it returned
\* or which panic ended it, the matrices and the trace of the call
Returned(qvm, first_run_flag, memory, trace, panic, utry, grad) ==
    [qvm |-> [qvm EXCEPT !.first_run = first_run_flag, !.memory = memory],
     ret |-> [ok |-> panic = "none", panic |-> panic, utry |-> utry,
              grad |-> grad, trace |-> trace]]

\* the panic of a call that needs the gradient on a QVM without it
CapabilityPanic(qvm) ==
    Returned(qvm, qvm.first_run, qvm.memory, << >>, "capability",
             ZeroMatrix, << >>)

\* the panic of dynamic_instructions[len - 1] on an empty program
IndexPanic(qvm, st) ==
    Returned(qvm, st.first_run, st.run.memory, st.run.trace, "index",
             ZeroMatrix, << >>)

\* the output buffer of the last dynamic instruction
LastOut(qvm) ==
    qvm.dynamic_instructions[Len(qvm.dynamic_instructions)].out

\* the end of get_unitary and of get_unitary_and_gradient: views of the
\* output buffer of the last dynamic instruction
get_returns(qvm, with_gradient, st) ==
    IF Len(qvm.dynamic_instructions) = 0 THEN IndexPanic(qvm, st)
    ELSE Returned(qvm, st.first_run, st.run.memory, st.run.trace, "none",
            st.run.memory[LastOut(qvm) + 1].utry,
            IF with_gradient THEN st.run.memory[LastOut(qvm) + 1].grad
            ELSE << >>)

\* QVM::get_unitary
get_unitary(qvm, params) ==
    get_returns(qvm, FALSE,
        dynamic_loop(qvm, params, FALSE, Len(qvm.dynamic_instructions),
            first_run(qvm, Entered(qvm))))

\* QVM::get_unitary_and_gradient
get_unitary_and_gradient(qvm, params) ==
    IF ~gradient_capable(qvm.diff_lvl) THEN CapabilityPanic(qvm)
    ELSE get_returns(qvm, TRUE,
            dynamic_loop(qvm, params, TRUE, Len(qvm.dynamic_instructions),
                first_run(qvm, Entered(qvm))))

\* the FRPR arm of write_unitary and write_unitary_and_gradient: memory is
\* the memory after the unitary of inst was written to its own buffer;
\* out_utry is copied from that buffer, and so is every matrix of out_grad
write_frpr(qvm, inst, with_gradient, out_grad, st, memory) ==
    Returned(qvm, st.first_run, memory,
        Append(st.run.trace, <<"dynamic", Len(qvm.dynamic_instructions)>>),
        "none", memory[inst.out + 1].utry,
        IF with_gradient
        THEN write_gradient(out_grad,
                [i \in 1..qvm.buffers[inst.input + 1].num_params |->
                    memory[inst.out + 1].utry])
        ELSE << >>)

\* the end of write_unitary and of write_unitary_and_gradient: the last
\* dynamic instruction writes to the matrices of the caller
write_returns(qvm, params, with_gradient, out_grad, inst, st) ==
    IF inst.op = "FRPR"
    THEN write_frpr(qvm, inst, with_gradient, out_grad, st,
            execute_unitary(inst, qvm.buffers, params, st.run.memory))
    ELSE Returned(qvm, st.first_run, st.run.memory,
            Append(st.run.trace,
                   <<"dynamic", Len(qvm.dynamic_instructions)>>),
            "none",
            calculate_unitary(inst, qvm.buffers, params, st.run.memory),
            IF with_gradient
            THEN write_gradient(out_grad,
                    calculate_gradient(inst, qvm.buffers, params,
                                       st.run.memory))
            ELSE << >>)

\* a write call after its capability check
write(qvm, params, with_gradient, out_grad) ==
    IF Len(qvm.dynamic_instructions) = 0
    THEN IndexPanic(qvm, first_run(qvm, Entered(qvm)))
    ELSE write_returns(qvm, params, with_gradient, out_grad,
            qvm.dynamic_instructions[Len(qvm.dynamic_instructions)],
            dynamic_loop(qvm, params, with_gradient,
                Len(qvm.dynamic_instructions) - 1,
                first_run(qvm, Entered(qvm))))

\* QVM::write_unitary
write_unitary(qvm, params) == write(qvm, params, FALSE, << >>)

\* write_unitary_and_gradient with its capability check after first_run
write_unitary_and_gradient_checks_late(qvm, params, out_grad) ==
    IF ~gradient_capable(qvm.diff_lvl)
    THEN Returned(qvm, first_run(qvm, Entered(qvm)).first_run,
            first_run(qvm, Entered(qvm)).run.memory,
            first_run(qvm, Entered(qvm)).run.trace, "capability",
            ZeroMatrix, << >>)
    ELSE write(qvm, params, TRUE, out_grad)

\* QVM::write_unitary_and_gradient
write_unitary_and_gradient(qvm, params, out_grad) ==
    IF ~gradient_capable(qvm.diff_lvl) THEN CapabilityPanic(qvm)
    ELSE write(qvm, params, TRUE, out_grad)

\* The Hessian level.  The Hessian matrices of a buffer are not kept in the
\* memory of the model: an instruction at this level leaves the unitary and
\* the gradient it leaves at the gradient level.

\* WriteStruct::execute_unitary_gradient_and_hessian and its _into variant
\* are todo!(); the other instructions have a body
hessian_implemented(inst) == inst.op # "Write"

RECURSIVE execute_all_hessian(_, _, _, _, _, _)
\* SpecializedInstruction::execute_unitary_gradient_and_hessian on the
\* instructions i .. last of insts in order, up to the first that panics
execute_all_hessian(insts, i, last, buffers, params, run) ==
    IF i > last THEN [ok |-> TRUE, run |-> run]
    ELSE IF ~hessian_implemented(insts[i]) THEN [ok |-> FALSE, run |-> run]
    ELSE execute_all_hessian(insts, i + 1, last, buffers, params,
            [memory |-> execute_unitary_and_gradient(insts[i], buffers,
                            params, run.memory),
             trace |-> Append(run.trace, <<"dynamic", i>>)])

\* the end of write_unitary_gradient_and_hessian: the panic of todo!() in
\* the loop or in the last dynamic instruction inst, which otherwise
\* writes to the matrices of the caller
hessian_returns(qvm, params, out_grad, inst, looped) ==
    IF ~looped.ok \/ ~hessian_implemented(inst)
    THEN Returned(qvm, FALSE, looped.run.memory, looped.run.trace, "todo",
            ZeroMatrix, << >>)
    ELSE write_returns(qvm, params, TRUE, out_grad, inst,
            [first_run |-> FALSE, run |-> looped.run])

\* QVM::write_unitary_gradient_and_hessian
write_unitary_gradient_and_hessian(qvm, params, out_grad) ==
    IF ~hessian_capable(qvm.diff_lvl) THEN CapabilityPanic(qvm)
    ELSE IF Len(qvm.dynamic_instructions) = 0
    THEN IndexPanic(qvm, first_run(qvm, Entered(qvm)))
    ELSE hessian_returns(qvm, params, out_grad,
            qvm.dynamic_instructions[Len(qvm.dynamic_instructions)],
            execute_all_hessian(qvm.dynamic_instructions, 1,
                Len(qvm.dynamic_instructions) - 1, qvm.buffers, params,
                first_run(qvm, Entered(qvm)).run))

----------------------------------------------------------------------------
\* A caller that optimizes a tree or not, compiles it, builds a QVM and
\* calls it.

\* Bounds of the trees, of the parameter vectors and of the calls.
MaxTreeQudits == 2
MaxParamValue == 2
MaxCalls == 2

\* the expressions of the leaves: a constant gate, a one-qudit gate and a
\* two-qudit gate of one parameter each
Gates ==
    {Expression(<<"P">>, 1, 0), Expression(<<"U">>, 1, 1),
     Expression(<<"CU">>, 2, 1)}

\* the sorted lists of n qudits
QuditLists(n) ==
    {SortedSeq(S) : S \in {T \in SUBSET (0..(MaxTreeQudits - 1)) :
                             Cardinality(T) = n}}

\* the trees MulNode::new, KronNode::new and ContractNode::new make of
\* left and right
Joined(left, right) ==
    (IF MulNodeNew(left, right).ok
     THEN {MulNodeNew(left, right).val} ELSE {})
    \cup (IF TreeNumQudits(left) + TreeNumQudits(right) <= MaxTreeQudits
          THEN {KronNodeNew(left, right)} ELSE {})
    \cup {ContractNodeNew(left, right, lq, rq).val :
            <<lq, rq>> \in {p \in QuditLists(TreeNumQudits(left))
                                  \X QuditLists(TreeNumQudits(right)) :
                              ContractNodeNew(left, right, p[1], p[2]).ok}}

Leaves == {Leaf(g) : g \in Gates}

Joins == UNION {Joined(a, b) : <<a, b>> \in Leaves \X Leaves}

\* the trees of the model: a leaf, two leaves joined, or such a join
\* joined with a leaf on either side
Trees ==
    Leaves \cup Joins
    \cup UNION {Joined(a, b) \cup Joined(b, a) :
                  <<a, b>> \in Joins \X Leaves}

\* the parameter vectors of the calls on a program of n parameters
ParamVectors(n) == {[i \in 1..n |-> v + i - 1] : v \in 1..MaxParamValue}

VMInit ==
    /\ input_tree \in Trees
    /\ optimized = FALSE
    /\ bytecode = None
    /\ vm = None
    /\ vm_pc = "tree"
    /\ calls = 0
    /\ last_call = None
    /\ num_qudits = 0
    /\ qudits_list = << >>
    /\ new_args = None
    /\ dag = << >>
    /\ index_counter = 0
    /\ pc = "idle"
    /\ disjoint_size = 0
    /\ fused = 0
    /\ result = None

\* TreeOptimizer::new().optimize(tree)
Optimize ==
    /\ vm_pc = "tree"
    /\ ~optimized
    /\ input_tree' = optimize(input_tree)
    /\ optimized' = TRUE
    /\ UNCHANGED <<bytecode, vm, vm_pc, calls, last_call>>
    /\ UNCHANGED builder_vars

\* compile(&tree)
Compile ==
    /\ vm_pc = "tree"
    /\ bytecode' = compile(input_tree)
    /\ vm_pc' = IF bytecode'.ok THEN "compiled" ELSE "aborted"
    /\ UNCHANGED <<input_tree, optimized, vm, calls, last_call>>
    /\ UNCHANGED builder_vars

\* QVM::new(bytecode, diff_lvl)
New ==
    /\ vm_pc = "compiled"
    /\ \E diff_lvl \in DifferentiationLevels :
          vm' = QVMNew(bytecode, diff_lvl)
    /\ vm_pc' = "ready"
    /\ UNCHANGED <<input_tree, optimized, bytecode, calls, last_call>>
    /\ UNCHANGED builder_vars

\* the step of a call that gave r: a panic ends the caller
Called(name, params, r) ==
    /\ vm' = r.qvm
    /\ last_call' = [name |-> name, params |-> params, before |-> vm,
                     ret |-> r.ret]
    /\ calls' = calls + 1
    /\ vm_pc' = IF r.ret.ok THEN "ready" ELSE "panicked"
    /\ UNCHANGED <<input_tree, optimized, bytecode>>
    /\ UNCHANGED builder_vars

\* the matrices a caller hands to write_unitary_and_gradient for the
\* gradient: one for each parameter of the tree
CallerGradient == [k \in 1..num_params(input_tree) |-> ZeroMatrix]

\* qvm.get_unitary(params)
GetUnitary ==
    /\ vm_pc = "ready"
    /\ calls < MaxCalls
    /\ \E params \in ParamVectors(num_params(input_tree)) :
          Called("get_unitary", params, get_unitary(vm, params))

\* qvm.get_unitary_and_gradient(params)
GetUnitaryAndGradient ==
    /\ vm_pc = "ready"
    /\ calls < MaxCalls
    /\ \E params \in ParamVectors(num_params(input_tree)) :
          Called("get_unitary_and_gradient", params,
                 get_unitary_and_gradient(vm, params))

\* qvm.write_unitary(params, out_utry)
WriteUnitary ==
    /\ vm_pc = "ready"
    /\ calls < MaxCalls
    /\ \E params \in ParamVectors(num_params(input_tree)) :
          Called("write_unitary", params, write_unitary(vm, params))

\* qvm.write_unitary_and_gradient(params, out_utry, out_grad)
WriteUnitaryAndGradient ==
    /\ vm_pc = "ready"
    /\ calls < MaxCalls
    /\ \E params \in ParamVectors(num_params(input_tree)) :
          Called("write_unitary_and_gradient", params,
                 write_unitary_and_gradient(vm, params, CallerGradient))

\* qvm.write_unitary_gradient_and_hessian(params, out_utry, out_grad,
\* out_hess)
WriteUnitaryGradientAndHessian ==
    /\ vm_pc = "ready"
    /\ calls < MaxCalls
    /\ \E params \in ParamVectors(num_params(input_tree)) :
          Called("write_unitary_gradient_and_hessian", params,
                 write_unitary_gradient_and_hessian(vm, params,
                                                    CallerGradient))

NextVM ==
    \/ Optimize
    \/ Compile
    \/ New
    \/ GetUnitary
    \/ GetUnitaryAndGradient
    \/ WriteUnitary
    \/ WriteUnitaryAndGradient
    \/ WriteUnitaryGradientAndHessian

SpecVM == VMInit /\ [][NextVM]_vars

----------------------------------------------------------------------------
\* A caller that hands TreeBuilder::new any arguments, builds the tree and
\* compiles it.

\* the locations an operator may be given on nq qudits, in any order
AnyLocations(nq) ==
    {loc \in UNION {[1..n -> 0..(nq - 1)] : n \in 1..MaxOpQudits} :
        \A j, k \in 1..Len(loc) : j # k => loc[j] # loc[k]}

\* what may be wrong with the arguments
Defects ==
    {"none", "no_qudits", "no_operators", "fewer_nexts", "fewer_prevs",
     "fewer_locations", "short_next", "short_prev", "short_location"}

\* the arguments a with the defect d
Defected(a, d) ==
    CASE d = "none" -> a
      [] d = "no_qudits" -> [a EXCEPT !.num_qudits = 0]
      [] d = "no_operators" ->
            [a EXCEPT !.expression_list = << >>, !.qudits_list = << >>,
                      !.next_list = << >>, !.prev_list = << >>]
      [] d = "fewer_nexts" -> [a EXCEPT !.next_list = Tail(@)]
      [] d = "fewer_prevs" -> [a EXCEPT !.prev_list = Tail(@)]
      [] d = "fewer_locations" -> [a EXCEPT !.qudits_list = Tail(@)]
      [] d = "short_next" -> [a EXCEPT !.next_list[1] = Tail(@)]
      [] d = "short_prev" -> [a EXCEPT !.prev_list[1] = Tail(@)]
      [] d = "short_location" -> [a EXCEPT !.qudits_list[1] = Tail(@)]

\* the arguments of the model: every circuit of up to MaxOps operators on
\* up to MaxQudits qudits, with every defect
Inputs ==
    UNION {{Defected(NewArgs(nq, locs), d) :
                locs \in UNION {[1..n -> AnyLocations(nq)] : n \in 1..MaxOps},
                d \in Defects} : nq \in 1..MaxQudits}

InputInit ==
    /\ new_args \in Inputs
    /\ qudits_list = new_args.qudits_list
    /\ num_qudits = 0
    /\ dag = << >>
    /\ index_counter = 0
    /\ pc = "new"
    /\ disjoint_size = 0
    /\ fused = 0
    /\ result = None
    /\ input_tree = None
    /\ optimized = FALSE
    /\ bytecode = None
    /\ vm = None
    /\ vm_pc = "idle"
    /\ calls = 0
    /\ last_call = None

\* the effect of TreeBuilder::new that gave b
Constructed(b) ==
    IF b.ok
    THEN /\ num_qudits' = b.num_qudits
         /\ dag' = b.dag
         /\ index_counter' = b.index_counter
         /\ pc' = "multiply_first"
    ELSE /\ pc' = "rejected"
         /\ UNCHANGED <<num_qudits, dag, index_counter>>

\* TreeBuilder::new(num_qudits, expression_list, qudits_list, next_list,
\* prev_list)
NewBuilder ==
    /\ pc = "new"
    /\ Constructed(TreeBuilderNew(new_args))
    /\ UNCHANGED <<qudits_list, new_args, disjoint_size, fused, result>>
    /\ UNCHANGED vm_vars

\* compile(&tree) of the tree build_tree returned
CompileResult ==
    /\ pc = "done"
    /\ vm_pc = "idle"
    /\ input_tree' = result[1]
    /\ bytecode' = compile(result[1])
    /\ vm_pc' = IF bytecode'.ok THEN "compiled" ELSE "aborted"
    /\ UNCHANGED <<optimized, vm, calls, last_call>>
    /\ UNCHANGED builder_vars

NextInput ==
    \/ NewBuilder
    \/ MultiplyAllPossible
    \/ PairwiseKronTowardsMultiply
    \/ ContractAll
    \/ KronAllCompletelyDisjoint
    \/ Return
    \/ CompileResult

SpecInput == InputInit /\ [][NextInput]_vars

----------------------------------------------------------------------------
\* build_tree on circuits of two-qudit operators on more qudits

\* Bounds of these circuits.
WideQudits == 4
WideOps == 4

\* the locations of the two-qudit operators
WideLocations ==
    {SortedSeq(S) : S \in {T \in SUBSET (0..(WideQudits - 1)) :
                              Cardinality(T) = 2}}

WideInit ==
    /\ num_qudits = WideQudits
    /\ qudits_list \in [1..WideOps -> WideLocations]
    /\ new_args = NewArgs(num_qudits, qudits_list)
    /\ dag = NewDag(qudits_list, NextList(qudits_list), PrevList(qudits_list))
    /\ index_counter = Len(qudits_list)
    /\ pc = "multiply_first"
    /\ disjoint_size = 0
    /\ fused = 0
    /\ result = None
    /\ input_tree = None
    /\ optimized = FALSE
    /\ bytecode = None
    /\ vm = None
    /\ vm_pc = "idle"
    /\ calls = 0
    /\ last_call = None

SpecWide == WideInit /\ [][Next]_vars

\* a step of build_tree as control sees it: every step of Next either moves
\* pc or, when it repeats a loop, has drawn new node ids from index_counter
BuildTreeRuns ==
    /\ pc \notin {"done", "panic"}
    /\ pc' \in {"multiply_first", "kron", "multiply_after_kron", "contract",
                "multiply_after_contract", "join", "assert", "done", "panic"}
    /\ index_counter' \in index_counter..(index_counter + Cardinality(DOMAIN dag))

\* build_tree is one sequential call: until it has returned or panicked it
\* takes its next step
SpecWideFair == SpecWide /\ WF_<<pc, index_counter>>(BuildTreeRuns)

\* Circuits of operators of every size: MixedOps operators on MixedQudits
\* qudits, each on one qudit, on some, or on all of them.
MixedQudits == 3
MixedOps == 3

MixedLocations ==
    {SortedSeq(S) : S \in (SUBSET (0..(MixedQudits - 1))) \ {{}}}

MixedInit ==
    /\ num_qudits = MixedQudits
    /\ qudits_list \in [1..MixedOps -> MixedLocations]
    /\ new_args = NewArgs(num_qudits, qudits_list)
    /\ dag = NewDag(qudits_list, NextList(qudits_list), PrevList(qudits_list))
    /\ index_counter = Len(qudits_list)
    /\ pc = "multiply_first"
    /\ disjoint_size = 0
    /\ fused = 0
    /\ result = None
    /\ input_tree = None
    /\ optimized = FALSE
    /\ bytecode = None
    /\ vm = None
    /\ vm_pc = "idle"
    /\ calls = 0
    /\ last_call = None

SpecMixed == MixedInit /\ [][Next]_vars

----------------------------------------------------------------------------
\* A caller that builds a tree with the constructors of the nodes, one call
\* after another, and optimizes it.

\* Bounds of the constructor calls and of the labels of Contract nodes.
MaxNodes == 2
MaxLabel == 2

\* the expressions of the leaves: a qubit gate without parameters, a qutrit
\* gate and a gate on a qubit and a qutrit of one parameter each
TreeGates ==
    {ExpressionOn(<<"P">>, <<2>>, 0), ExpressionOn(<<"V">>, <<3>>, 1),
     ExpressionOn(<<"W">>, <<2, 3>>, 1)}

\* the lists of n distinct numbers of 0 .. top, in any order
Arrangements(n, top) ==
    {l \in [1..n -> 0..top] : \A j, k \in 1..n : j # k => l[j] # l[k]}

TreeInit ==
    /\ input_tree \in {Leaf(g) : g \in TreeGates}
    /\ optimized = FALSE
    /\ bytecode = None
    /\ vm = None
    /\ vm_pc = "tree"
    /\ calls = 0
    /\ last_call = None
    /\ num_qudits = 0
    /\ qudits_list = << >>
    /\ new_args = None
    /\ dag = << >>
    /\ index_counter = 0
    /\ pc = "idle"
    /\ disjoint_size = 0
    /\ fused = 0
    /\ result = None

\* the step of a constructor call on args that gave r: the node it returns
\* is the tree from then on, a panic ends the caller
Made(name, args, r) ==
    /\ vm_pc = "tree"
    /\ ~optimized
    /\ calls < MaxNodes
    /\ last_call' = [name |-> name, args |-> args, ok |-> r.ok]
    /\ input_tree' = IF r.ok THEN r.val ELSE input_tree
    /\ vm_pc' = IF r.ok THEN "tree" ELSE "panicked"
    /\ calls' = calls + 1
    /\ UNCHANGED <<optimized, bytecode, vm>>
    /\ UNCHANGED builder_vars

\* MulNode::new(left, right) of the tree and a leaf
NewMul ==
    \E g \in TreeGates :
        \E c \in {<<input_tree, Leaf(g)>>, <<Leaf(g), input_tree>>} :
            Made("Mul", c, MulNodeNew(c[1], c[2]))

\* KronNode::new(left, right) of the tree and a leaf
NewKron ==
    \E g \in TreeGates :
        \E c \in {<<input_tree, Leaf(g)>>, <<Leaf(g), input_tree>>} :
            Made("Kron", c, [ok |-> TRUE, val |-> KronNodeNew(c[1], c[2])])

\* ContractNode::new(left, right, left_qudits, right_qudits) of the tree
\* and a leaf
NewContract ==
    \E g \in TreeGates :
        \E c \in {<<input_tree, Leaf(g)>>, <<Leaf(g), input_tree>>} :
            \E lq \in Arrangements(TreeNumQudits(c[1]), MaxLabel),
               rq \in Arrangements(TreeNumQudits(c[2]), MaxLabel) :
                Made("Contract", <<c[1], c[2], lq, rq>>,
                     ContractNodeNew(c[1], c[2], lq, rq))

\* PermNode::new(child, perm) of the tree and a permutation of its qudits
NewPerm ==
    \E perm \in Arrangements(TreeNumQudits(input_tree),
                             TreeNumQudits(input_tree) - 1) :
        Made("Perm", <<input_tree, perm>>,
             PermNodeNew(input_tree,
                         [radices |-> radices(input_tree), perm |-> perm]))

\* ConstantNode::new(child) of the tree; the type is private to the crate
\* and its one caller wraps a tree only when it has no parameters
NewConstant ==
    /\ num_params(input_tree) = 0
    /\ Made("Constant", <<input_tree>>,
            [ok |-> TRUE, val |-> ConstantNodeNew(input_tree)])

NextTree ==
    \/ NewMul
    \/ NewKron
    \/ NewContract
    \/ NewPerm
    \/ NewConstant
    \/ Optimize

SpecTree == TreeInit /\ [][NextTree]_vars

----------------------------------------------------------------------------
\* Properties of build_tree

RECURSIVE FollowNext(_, _, _)
\* the next chain on qudit q from input operator idx on
FollowNext(locs, idx, q) ==
    LET nx == NextList(locs)[idx + 1][Position(locs[idx + 1], q)]
    IN  IF nx = None THEN <<idx>> ELSE <<idx>> \o FollowNext(locs, nx[1], q)

\* the input operators on qudit q in the order of the next/prev chain
ChainOn(locs, q) ==
    LET firsts == {i \in 1..Len(locs) :
                      /\ Contains(locs[i], q)
                      /\ PrevList(locs)[i][Position(locs[i], q)] = None}
    IN  IF firsts = {} THEN << >>
        ELSE FollowNext(locs, (CHOOSE i \in firsts : TRUE) - 1, q)

RECURSIVE AppliedOn(_, _, _)
\* the input operators on qudit q in the order tree t applies them:
\* Mul(l, r), Contract(l, r) and Kron(l, r) list those of l before those of r
AppliedOn(t, locs, q) ==
    IF t.kind = "Leaf"
    THEN IF Contains(locs[t.expr.name + 1], q)
         THEN <<t.expr.name>> ELSE << >>
    ELSE AppliedOn(t.left, locs, q) \o AppliedOn(t.right, locs, q)

RECURSIVE LeafQudits(_, _)
\* the qudits the leaves of t act on
LeafQudits(t, locs) ==
    IF t.kind = "Leaf" THEN Range(locs[t.expr.name + 1])
    ELSE LeafQudits(t.left, locs) \cup LeafQudits(t.right, locs)

RECURSIVE KronsDisjoint(_, _)
\* the two children of every Kron of t act on disjoint qudits
KronsDisjoint(t, locs) ==
    \/ t.kind = "Leaf"
    \/ /\ KronsDisjoint(t.left, locs)
       /\ KronsDisjoint(t.right, locs)
       /\ t.kind = "Kron" =>
            LeafQudits(t.left, locs) \cap LeafQudits(t.right, locs) = {}

RECURSIVE Kinds(_)
\* the kinds of the nodes of t
Kinds(t) ==
    CASE t.kind = "Leaf" -> {"Leaf"}
      [] t.kind \in {"Perm", "Constant"} -> {t.kind} \cup Kinds(t.child)
      [] OTHER -> {t.kind} \cup Kinds(t.left) \cup Kinds(t.right)

C2_DisjointSystemsJoined ==
    pc = "assert" => Cardinality(DOMAIN dag) = 1

\* C3: the tree build_tree returns has as many qudits as the builder's
\* num_qudits, idle qudits included.
C3_RootCoversAllQudits ==
    pc = "done" => TreeNumQudits(result[1]) = num_qudits

----------------------------------------------------------------------------
\* Properties of compile and of the QVM

\* whether compile has returned
Compiled == vm_pc \in {"compiled", "ready", "panicked"}

\* whether the last call was name and returned
LastReturned(name) ==
    calls > 0 /\ last_call.name = name /\ last_call.ret.ok

\* the buffers an instruction reads
Reads(inst) ==
    CASE inst.op = "Write" -> {}
      [] inst.op = "FRPR" -> {inst.input}
      [] OTHER -> {inst.left, inst.right}

\* every buffer an instruction of code reads is the destination of an
\* earlier instruction of code
ReadsWritten(code) ==
    \A i \in 1..Len(code) :
        Reads(code[i]) \subseteq {code[j].out : j \in 1..(i - 1)}

\* the events of the first loops of first_run over insts
WarmEvents(insts) ==
    [i \in 1..Len(SelectSeq(insts, LAMBDA x : x.op = "Write")) |->
        <<"warm", SelectSeq(insts, LAMBDA x : x.op = "Write")[i].out>>]

\* one event for each instruction of insts, in program order
RunEvents(tag, insts) == [i \in 1..Len(insts) |-> <<tag, i>>]

\* the destinations of the static instructions
StaticOuts ==
    {bytecode.static_code[i].out : i \in 1..Len(bytecode.static_code)}

\* the end of the matrices of sized buffer b at level diff_lvl
FootprintEnd(b, diff_lvl) ==
    b.offset
    + b.mat_stride
      * (1 + (IF gradient_capable(diff_lvl) THEN b.num_params ELSE 0)
           + (IF hessian_capable(diff_lvl)
              THEN (b.num_params * (b.num_params + 1)) \div 2 ELSE 0))

\* C4: after get_unitary_and_gradient on a compiled tree, gradient matrix
\* i of the output is the derivative of the output by params[i], for every
\* i below the number of parameters of the tree, also for Mul and Contract
\* nodes whose two children have parameters.
C4_GradientFollowsParams ==
    LastReturned("get_unitary_and_gradient") =>
        \A i \in 0..(num_params(input_tree) - 1) :
            last_call.ret.grad[i + 1] = Derivative(last_call.ret.utry, i)

\* C5: for a tree of parameter-free leaves, the optimized tree is a
\* Constant, the compiled dynamic code is empty, get_unitary returns the
\* matrix the static code computed, and a second call returns it again
\* without executing a static instruction.
C5_ConstantCircuitEvaluates ==
    (optimized /\ num_params(input_tree) = 0) =>
        /\ input_tree.kind = "Constant"
        /\ Compiled => bytecode.dynamic_code = << >>
        /\ (calls > 0 /\ last_call.name = "get_unitary") =>
              /\ last_call.ret.ok
              /\ last_call.ret.utry = vm.memory[Len(vm.memory)].utry
              /\ calls > 1 =>
                    /\ last_call.ret.trace = << >>
                    /\ vm.memory = last_call.before.memory

\* C6: write_unitary_and_gradient leaves in out and in every out_grad[i]
\* the matrices get_unitary_and_gradient returns for the same QVM and
\* parameters, and write_unitary leaves in out the matrix get_unitary
\* returns, whatever the last dynamic instruction is.
C6_WriteMatchesGet ==
    /\ LastReturned("write_unitary_and_gradient") =>
          /\ last_call.ret.utry =
                get_unitary_and_gradient(last_call.before,
                                         last_call.params).ret.utry
          /\ last_call.ret.grad =
                get_unitary_and_gradient(last_call.before,
                                         last_call.params).ret.grad
    /\ LastReturned("write_unitary") =>
          last_call.ret.utry =
              get_unitary(last_call.before, last_call.params).ret.utry

\* C7: in the bytecode compile returns, every buffer an instruction reads
\* is the destination of an earlier instruction, and the first get_unitary
\* returns the matrix the program returns before remove_identity_frpr,
\* chains of removed FRPRs included.
C7_FRPRRemovalSafe ==
    Compiled =>
        /\ ReadsWritten(bytecode.static_code \o bytecode.dynamic_code)
        /\ (calls = 1 /\ LastReturned("get_unitary")) =>
              last_call.ret.utry =
                  get_unitary(
                      QVMNew(StaticBytecodeOptimizerOptimize(
                                 generate(input_tree)),
                             last_call.before.diff_lvl),
                      last_call.params).ret.utry

\* the trace C8 prescribes for the call that was made last
PrescribedTrace ==
    (IF calls = 1
     THEN WarmEvents(bytecode.static_code)
          \o WarmEvents(bytecode.dynamic_code)
          \o RunEvents("static", bytecode.static_code)
     ELSE << >>)
    \o RunEvents("dynamic", bytecode.dynamic_code)

\* C8: the first call that passes its capability check sets the diagonal
\* of every Write destination, executes each static instruction once in
\* program order and then each dynamic instruction once in program order;
\* every later call executes no static instruction and each dynamic
\* instruction once in program order.  A call that todo!() aborts has done
\* so up to the instruction that aborts it.
C8_PreludeRunsOnce ==
    (calls > 0 /\ last_call.ret.panic # "capability") =>
        IF last_call.ret.panic = "todo"
        THEN /\ Len(last_call.ret.trace)
                    >= Len(PrescribedTrace) - Len(bytecode.dynamic_code)
             /\ Len(last_call.ret.trace) < Len(PrescribedTrace)
             /\ last_call.ret.trace =
                    SubSeq(PrescribedTrace, 1, Len(last_call.ret.trace))
        ELSE last_call.ret.trace = PrescribedTrace

\* a second call has returned on a QVM with static and dynamic
\* instructions
C8_Witness ==
    /\ calls = 2
    /\ last_call.ret.ok
    /\ bytecode.static_code # << >>
    /\ Len(last_call.ret.trace) = Len(bytecode.dynamic_code)

\* C9: no dynamic instruction writes a buffer a static instruction writes,
\* and the buffers the static instructions write hold at the end of every
\* call what they held after first_run.
C9_ConstantBuffersStable ==
    Compiled =>
        /\ \A i \in 1..Len(bytecode.dynamic_code) :
              bytecode.dynamic_code[i].out \notin StaticOuts
        /\ (calls > 0 /\ last_call.ret.panic # "capability") =>
              \A b \in StaticOuts :
                  vm.memory[b + 1] =
                      first_run(last_call.before,
                                Entered(last_call.before)).run.memory[b + 1]

\* a second call has returned with other parameters than the first on a
\* QVM whose static code wrote a buffer before the dynamic code wrote one
C9_Witness ==
    /\ calls = 2
    /\ last_call.ret.ok
    /\ vm.memory # last_call.before.memory
    /\ \E b \in StaticOuts : b > bytecode.dynamic_code[1].out

\* C10: at every differentiation level the buffers Bytecode::specialize
\* lays out do not overlap: each starts where the matrices of the one
\* before it end, offsets increase in buffer order, and the memory size is
\* the end of the last buffer.
C10_LayoutDisjoint ==
    vm_pc = "ready" =>
        /\ \A j, k \in 1..Len(vm.buffers) :
              j < k =>
                 /\ vm.buffers[j].offset < vm.buffers[k].offset
                 /\ FootprintEnd(vm.buffers[j], vm.diff_lvl)
                        <= vm.buffers[k].offset
        /\ vm.memory_size =
              FootprintEnd(vm.buffers[Len(vm.buffers)], vm.diff_lvl)

\* a Hessian-capable QVM of several buffers, one of them with parameters
C10_Witness ==
    /\ vm_pc = "ready"
    /\ vm.diff_lvl = "Hessian"
    /\ Len(vm.buffers) >= 3
    /\ \E k \in 1..(Len(vm.buffers) - 1) : vm.buffers[k].num_params > 0

\* whether the level diff_lvl permits the call name
Permits(diff_lvl, name) ==
    CASE name \in {"get_unitary_and_gradient", "write_unitary_and_gradient"}
            -> diff_lvl \in {"Gradient", "Hessian"}
      [] name = "write_unitary_gradient_and_hessian" -> diff_lvl = "Hessian"
      [] OTHER -> TRUE

\* C11: a call for a derivative the level of the QVM does not permit
\* panics for that reason, and no other call does; the panic comes before
\* first_run and before any instruction, so the call has executed nothing
\* and the QVM, its memory and its first_run flag are those before it.
C11_CapabilityMismatchFatal ==
    calls > 0 =>
        /\ (last_call.ret.panic = "capability")
              <=> ~Permits(last_call.before.diff_lvl, last_call.name)
        /\ last_call.ret.panic = "capability" =>
              /\ ~last_call.ret.ok
              /\ last_call.ret.trace = << >>
              /\ vm = last_call.before
              /\ vm.first_run = last_call.before.first_run
              /\ vm.memory = last_call.before.memory

\* the Hessian was asked of a QVM of level Gradient whose prelude has not
\* run and has static instructions to run
C11_Witness ==
    /\ calls = 1
    /\ last_call.name = "write_unitary_gradient_and_hessian"
    /\ last_call.before.diff_lvl = "Gradient"
    /\ last_call.ret.panic = "capability"
    /\ vm.first_run
    /\ vm.static_instructions # << >>
    /\ vm.dynamic_instructions # << >>

\* C12: write_unitary_gradient_and_hessian on a Hessian-capable QVM with
\* dynamic instructions executes each of them, Write instructions too, and
\* returns.
C12_HessianRunsToCompletion ==
    (/\ calls > 0
     /\ last_call.name = "write_unitary_gradient_and_hessian"
     /\ last_call.before.diff_lvl = "Hessian"
     /\ bytecode.dynamic_code # << >>) =>
        /\ last_call.ret.ok
        /\ SelectSeq(last_call.ret.trace, LAMBDA e : e[1] = "dynamic")
              = RunEvents("dynamic", bytecode.dynamic_code)

\* whether location loc is ascending
Ascending(loc) == \A k \in 1..(Len(loc) - 1) : loc[k] < loc[k + 1]

\* whether the DAG is the one TreeBuilder::new returned
Fresh ==
    /\ pc \notin {"new", "rejected"}
    /\ DOMAIN dag = 0..(Len(new_args.expression_list) - 1)

\* C13: TreeBuilder::new makes of an operator on a location that is not
\* ascending a Perm of its Leaf on the sorted location, and compile
\* returns bytecode for the tree build_tree returns when it has Perm nodes,
\* with one FRPR for each.
C13_PermLowered ==
    /\ Fresh =>
          \A idx \in DOMAIN dag :
              ~Ascending(new_args.qudits_list[idx + 1]) =>
                  /\ dag[idx].node.kind = "Perm"
                  /\ dag[idx].node.child
                        = Leaf(new_args.expression_list[idx + 1])
                  /\ Ascending(dag[idx].qudits)
    /\ (vm_pc \in {"compiled", "aborted"} /\ "Perm" \in Kinds(input_tree)) =>
          /\ bytecode.ok
          /\ \E i \in 1..Len(bytecode.dynamic_code) :
                bytecode.dynamic_code[i].op = "FRPR"

\* whether the lists of the arguments a have one length
SameLengths(a) ==
    /\ Len(a.qudits_list) = Len(a.expression_list)
    /\ Len(a.next_list) = Len(a.expression_list)
    /\ Len(a.prev_list) = Len(a.expression_list)

\* whether every operator of a has as many qudits as each of its entries
EntriesFit(a) ==
    \A i \in 1..Len(a.expression_list) :
        /\ Len(a.qudits_list[i]) = a.expression_list[i].nq
        /\ Len(a.next_list[i]) = a.expression_list[i].nq
        /\ Len(a.prev_list[i]) = a.expression_list[i].nq

\* C14: TreeBuilder::new panics when num_qudits is 0, when there is no
\* operator, when the four lists differ in length and when an operator has
\* another number of qudits than its location, its nexts or its prevs; on
\* all other arguments it returns a builder with one DAG node for each
\* operator, under the index of the operator, holding the operator, its
\* sorted location and its links, and with index_counter the number of
\* operators.
C14_NewValidates ==
    pc # "new" =>
        /\ pc = "rejected" <=>
              \/ new_args.num_qudits = 0
              \/ new_args.expression_list = << >>
              \/ ~SameLengths(new_args)
              \/ ~EntriesFit(new_args)
        /\ pc = "rejected" => dag = << >> /\ index_counter = 0
        /\ Fresh =>
              /\ num_qudits = new_args.num_qudits
              /\ index_counter = Len(new_args.expression_list)
              /\ \A idx \in DOMAIN dag :
                    /\ \/ dag[idx].node
                             = Leaf(new_args.expression_list[idx + 1])
                       \/ /\ dag[idx].node.kind = "Perm"
                          /\ dag[idx].node.child
                                = Leaf(new_args.expression_list[idx + 1])
                    /\ dag[idx].qudits
                          = SortedSeq(Range(new_args.qudits_list[idx + 1]))
                    /\ dag[idx].next = new_args.next_list[idx + 1]
                    /\ dag[idx].prev = new_args.prev_list[idx + 1]

\* arguments were rejected for one operator whose list of prevs is short
C14_Witness ==
    /\ pc = "rejected"
    /\ new_args.num_qudits > 0
    /\ Len(new_args.expression_list) > 1
    /\ SameLengths(new_args)
    /\ \E i \in 1..Len(new_args.expression_list) :
          Len(new_args.prev_list[i]) < new_args.expression_list[i].nq

----------------------------------------------------------------------------
\* Properties of the node constructors and of the optimizer

\* the sum of the parameter counts of the leaves of a tree
RECURSIVE LeafParams(_)
LeafParams(t) ==
    CASE t.kind = "Leaf" -> t.expr.np
      [] t.kind \in {"Constant", "Perm"} -> LeafParams(t.child)
      [] OTHER -> LeafParams(t.left) + LeafParams(t.right)

LabelRadix(args, q) ==
    IF Contains(args[3], q)
    THEN radices(args[1])[Position(args[3], q)]
    ELSE radices(args[2])[Position(args[4], q)]

\* the radices of the labels of either side, in ascending order of label
UnionSortedRadices(args) ==
    LET labels == SortedSeq(Range(args[3]) \cup Range(args[4]))
    IN [i \in 1..Len(labels) |-> LabelRadix(args, labels[i])]

\* C17: after a constructor call, a Kron node has the radices of its left
\* child followed by those of its right child and the product of their
\* dimensions; MulNode::new aborts unless the radices of its children are
\* equal, and the node has those radices and that dimension; a Perm node
\* has the radices of its child permuted; a Contract node has the radices
\* of the labels of both sides in ascending order of label, and their
\* product as dimension.
C17_RadixInvariants ==
    (vm_pc \in {"tree", "panicked"} /\ ~optimized /\ last_call # None) =>
        LET args == last_call.args
        IN CASE last_call.name = "Kron" ->
                    /\ last_call.ok
                    /\ radices(input_tree)
                          = radices(args[1]) \o radices(args[2])
                    /\ dimension(input_tree)
                          = dimension(args[1]) * dimension(args[2])
             [] last_call.name = "Mul" ->
                    /\ last_call.ok <=> radices(args[1]) = radices(args[2])
                    /\ last_call.ok =>
                          /\ radices(input_tree) = radices(args[1])
                          /\ dimension(input_tree) = dimension(args[1])
             [] last_call.name = "Perm" ->
                    last_call.ok =>
                        radices(input_tree)
                          = [i \in 1..Len(args[2]) |->
                                radices(args[1])[args[2][i] + 1]]
             [] last_call.name = "Contract" ->
                    last_call.ok =>
                        /\ radices(input_tree) = UnionSortedRadices(args)
                        /\ dimension(input_tree)
                              = Product(UnionSortedRadices(args))
             [] OTHER -> TRUE

\* a Contract node of sides with labels out of order, whose radices are
\* not those of its left child
C17_Witness ==
    /\ vm_pc = "tree"
    /\ ~optimized
    /\ last_call # None
    /\ last_call.name = "Contract"
    /\ last_call.ok
    /\ ~Ascending(last_call.args[3])
    /\ radices(input_tree) = <<3, 2>>

----------------------------------------------------------------------------
\* Properties of the order of iteration

\* the keys of the DAG from the last to the first
Backwards == [i \in 1..Cardinality(DOMAIN dag) |->
                SortedSeq(DOMAIN dag)[Cardinality(DOMAIN dag) + 1 - i]]

\* the step build_tree is about to run, under one order of the keys
StepUnder(dag_vec) ==
    CASE pc \in {"multiply_first", "multiply_after_kron",
                 "multiply_after_contract"} ->
            multiply_all_possible_single_step(dag, index_counter, dag_vec)
      [] pc = "kron" ->
            pairwise_kron_towards_multiply(dag, index_counter, num_qudits,
                                           disjoint_size, dag_vec)
      [] pc = "contract" ->
            contract_all_single_step(dag, index_counter, num_qudits,
                                     disjoint_size, dag_vec)
      [] OTHER -> [ok |-> TRUE, dag |-> dag]

\* C16: whatever order the HashMap hands out the keys of the DAG in, the
\* step build_tree is about to run selects and fuses the same pairs under
\* the same new keys, so that two runs on one input go through the same
\* DAGs to the same tree, and compile, a function of the tree, gives the
\* same instruction sequences.
C16_Deterministic ==
    \A dag_vec \in Orders(DOMAIN dag) :
        StepUnder(dag_vec) = StepUnder(Backwards)

\* a DAG of three or more nodes, one of them fused by an earlier step, of
\* which the next step fuses some more when the keys come last to first
C16_Witness ==
    /\ pc \in {"multiply_after_kron", "multiply_after_contract", "kron",
               "contract"}
    /\ Cardinality(DOMAIN dag) >= 3
    /\ \E k \in DOMAIN dag : dag[k].node.kind # "Leaf"
    /\ StepUnder(Backwards).ok
    /\ DOMAIN StepUnder(Backwards).dag # DOMAIN dag

----------------------------------------------------------------------------
\* Properties of the links of the DAG

\* whether every link of the list there of node n of d leads to a node
\* of d that has the qudit of the link and, in its list back at the
\* position of that qudit, a link to n
LinksAnswered(d, n, there, back) ==
    \A i \in 1..Len(d[n][there]) :
        d[n][there][i] # None =>
            /\ i <= Len(d[n].qudits)
            /\ d[n][there][i][1] \in DOMAIN d
            /\ Contains(d[d[n][there][i][1]].qudits, d[n].qudits[i])
            /\ d[d[n][there][i][1]][back][
                    Position(d[d[n][there][i][1]].qudits, d[n].qudits[i])]
                  = Some(n)

\* C18: after TreeBuilder::new and after every step of build_tree, every
\* next link of every node of the DAG is answered by the prev link of its
\* target at the position of the qudit, and every prev link by a next
\* link, also when operators were given with qudits out of order; and the
\* step about to run does not fail.
C18_LinksConsistent ==
    /\ StepUnder(Backwards).ok
    /\ \A n \in DOMAIN dag :
          /\ LinksAnswered(dag, n, "next", "prev")
          /\ LinksAnswered(dag, n, "prev", "next")

\* the nodes of d the next links of node n lead to
NextOf(d, n) ==
    {d[n].next[i][1] : i \in {j \in 1..Len(d[n].next) : d[n].next[j] # None}}
        \cap DOMAIN d

RECURSIVE Onward(_, _)
\* the nodes of S and all the nodes of d reached from them along next links
Onward(d, S) ==
    IF UNION {NextOf(d, n) : n \in S} \subseteq S THEN S
    ELSE Onward(d, S \cup UNION {NextOf(d, n) : n \in S})

\* whether no node of d is reached from itself along next links
Acyclic(d) == \A n \in DOMAIN d : n \notin Onward(d, NextOf(d, n))

\* C19: the next links of the circuit given to the builder have no cycle,
\* and after every step of build_tree the next links among the nodes of
\* the DAG have none either.
C19_AcyclicPreserved == Acyclic(dag)

----------------------------------------------------------------------------
\* Properties of the dependency analysis

\* whether next links lead from a to b by way of some other node
PathThrough(d, a, b) ==
    \E m \in NextOf(d, a) \ {b} : b \in Onward(d, {m})

\* has_non_direct_dependency with a search that is not pruned
Unpruned(d, a, b) ==
    has_non_direct_dependency_loop(d, a, b, [ok |-> TRUE, val |-> {}],
                                   <<a>>, {})

Closed(d) ==
    \A n \in DOMAIN d :
        Range(Somes(d[n].next)) \cup Range(Somes(d[n].prev)) \subseteq DOMAIN d

\* the nodes of d reached from node v along one or more next links
Descendants(d, v) == Onward(d, NextOf(d, v))

\* the nodes reached from v that act on qudit q
DescendantsOn(d, v, q) ==
    {n \in Descendants(d, v) : Contains(d[n].qudits, q)}

\* the first of them on q: the one whose predecessor on q is not among them
FirstOn(d, v, q) ==
    {n \in DescendantsOn(d, v, q) :
        \/ d[n].prev[Position(d[n].qudits, q)] = None
        \/ d[n].prev[Position(d[n].qudits, q)][1] \notin Descendants(d, v)}

\* C21: on a DAG without cycle whose links name nodes of the DAG, every
\* node project_to_right(v) returns is reached from v along one or more
\* next links and is not v, and for every qudit some such node acts on,
\* the returned set has a node that acts on it.
C21_ProjectionCoversQudits ==
    (Acyclic(dag) /\ Closed(dag)) =>
        \A v \in DOMAIN dag :
            /\ project_to_right(dag, num_qudits, v).ok
            /\ project_to_right(dag, num_qudits, v).val
                  \subseteq Descendants(dag, v) \ {v}
            /\ \A q \in 0..(num_qudits - 1) :
                  DescendantsOn(dag, v, q) # {} =>
                      project_to_right(dag, num_qudits, v).val
                          \cap DescendantsOn(dag, v, q) # {}

\* C21 as stated: on a DAG without cycle whose links name nodes of the
\* DAG, every node project_to_right(v) returns is reached from v along
\* one or more next links and is not v, and for every qudit some such
\* node acts on, the returned set has the first of them on that qudit.
C21_ProjectionEarliest ==
    (Acyclic(dag) /\ Closed(dag)) =>
        \A v \in DOMAIN dag :
            /\ project_to_right(dag, num_qudits, v).ok
            /\ project_to_right(dag, num_qudits, v).val
                  \subseteq Descendants(dag, v) \ {v}
            /\ \A q \in 0..(num_qudits - 1) :
                  FirstOn(dag, v, q)
                      \subseteq project_to_right(dag, num_qudits, v).val

\* a Kron or Contract step is about to search a DAG in which the
\* projection of some node is not empty and leaves out the first node
\* after it on some qudit
C21_Witness ==
    /\ pc \in {"kron", "contract"}
    /\ Acyclic(dag)
    /\ Closed(dag)
    /\ \E v \in DOMAIN dag :
          /\ project_to_right(dag, num_qudits, v).val # {}
          /\ \E q \in 0..(num_qudits - 1) :
                ~(FirstOn(dag, v, q)
                    \subseteq project_to_right(dag, num_qudits, v).val)

----------------------------------------------------------------------------
\* Properties of the fusion steps

MultiplyStates ==
    {"multiply_first", "multiply_after_kron", "multiply_after_contract"}

\* whether the entries of the prev list of node n of d that are not empty
\* all name one node, and that node has the qudit list of n
MulCandidate(d, n) ==
    /\ Cardinality(Range(Somes(d[n].prev))) = 1
    /\ \A p \in Range(Somes(d[n].prev)) :
          p \in DOMAIN d /\ d[p].qudits = d[n].qudits

\* the node of d2 that stands for node x of d after a step: x itself when
\* it is still there, and otherwise the new node made of it
StandsFor(d, d2, x) ==
    IF x \in DOMAIN d2 \/ x \notin DOMAIN d THEN x
    ELSE CHOOSE k \in DOMAIN d2 \ DOMAIN d :
            d2[k].node.left = d[x].node \/ d2[k].node.right = d[x].node

\* a list of links of d as it reads after the step
Carried(d, d2, links) ==
    [i \in 1..Len(links) |->
        IF links[i] = None THEN None
        ELSE Some(StandsFor(d, d2, links[i][1]))]

\* whether node k of d2 is the Mul of a node p of d and its successor n
MulOf(d, d2, k, p, n) ==
    /\ p # n
    /\ Range(Somes(d[n].prev)) = {p}
    /\ d[p].qudits = d[n].qudits
    /\ d2[k].node.kind = "Mul"
    /\ d2[k].node.left = d[p].node
    /\ d2[k].node.right = d[n].node
    /\ d2[k].qudits = d[n].qudits
    /\ d2[k].prev = Carried(d, d2, d[p].prev)
    /\ d2[k].next = Carried(d, d2, d[n].next)

\* whether d2 is d with some disjoint pairs of nodes replaced by their Mul
MulFused(d, d2) ==
    /\ \A k \in DOMAIN d2 \ DOMAIN d :
          \E p, n \in DOMAIN d \ DOMAIN d2 : MulOf(d, d2, k, p, n)
    /\ Cardinality(DOMAIN d \ DOMAIN d2)
          = 2 * Cardinality(DOMAIN d2 \ DOMAIN d)
    /\ \A x \in DOMAIN d \cap DOMAIN d2 :
          /\ d2[x].node = d[x].node
          /\ d2[x].qudits = d[x].qudits

\* what a step taken inside multiply_all_possible does
MultiplyStepRight ==
    pc \in MultiplyStates =>
        /\ pc' # "panic"
        /\ MulFused(dag, dag')
        /\ pc' \notin MultiplyStates =>
              \A n \in DOMAIN dag' : ~MulCandidate(dag', n)

\* C22: every step of multiply_all_possible replaces disjoint pairs of a
\* node and its only predecessor on the same qudit list by
\* Mul(predecessor, successor) on that list with the prev links of the
\* predecessor and the next links of the successor, and when the loop is
\* left no node of the DAG has such a predecessor.
C22_MultiplyFixpoint == [][MultiplyStepRight]_vars

\* the first step of multiply_all_possible has fused two pairs of
\* operators
C22_Witness ==
    /\ pc = "multiply_first"
    /\ index_counter = Len(qudits_list) + 2
    /\ \A k \in {index_counter - 1, index_counter - 2} :
          /\ k \in DOMAIN dag
          /\ dag[k].node.kind = "Mul"
          /\ dag[k].node.left.kind = "Leaf"

\* the qudits two nodes of d act on together, and those only one acts on
QuditsOfBoth(d, p, n) == Range(d[p].qudits) \cup Range(d[n].qudits)

QuditsOfOne(d, p, n) ==
    QuditsOfBoth(d, p, n) \ (Range(d[p].qudits) \cap Range(d[n].qudits))

\* whether p is a direct predecessor of n in d that differs from it on at
\* most disjoint qudits and reaches it on no other path
ContractCandidate(d, nq, disjoint, p, n) ==
    /\ p \in DOMAIN d
    /\ n \in DOMAIN d
    /\ p \in Range(Somes(d[n].prev))
    /\ Cardinality(QuditsOfOne(d, p, n)) <= disjoint
    /\ has_non_direct_dependency(d, nq, p, n) = [ok |-> TRUE, val |-> FALSE]

\* whether node k of d2 is the Contract of the nodes p and n of d
ContractOf(d, d2, k, p, n) ==
    /\ d2[k].node.kind = "Contract"
    /\ d2[k].node.left = d[p].node
    /\ d2[k].node.right = d[n].node
    /\ d2[k].node.left_qudits = d[p].qudits
    /\ d2[k].node.right_qudits = d[n].qudits
    /\ Range(d2[k].qudits) = QuditsOfBoth(d, p, n)

\* the pairs of nodes of d that the step to d2 replaced by a Contract node
ContractedPairs(d, d2) ==
    {c \in (DOMAIN d \ DOMAIN d2) \X (DOMAIN d \ DOMAIN d2) :
        \E k \in DOMAIN d2 \ DOMAIN d : ContractOf(d, d2, k, c[1], c[2])}

\* whether d2 is d with disjoint candidate pairs replaced by their Contract,
\* a candidate being left out only for a pair that is not larger
ContractFused(d, d2, nq, disjoint) ==
    /\ \A k \in DOMAIN d2 \ DOMAIN d :
          \E c \in ContractedPairs(d, d2) :
             /\ ContractOf(d, d2, k, c[1], c[2])
             /\ ContractCandidate(d, nq, disjoint, c[1], c[2])
    /\ Cardinality(DOMAIN d \ DOMAIN d2)
          = 2 * Cardinality(DOMAIN d2 \ DOMAIN d)
    /\ \A x \in DOMAIN d \cap DOMAIN d2 :
          /\ d2[x].node = d[x].node
          /\ d2[x].qudits = d[x].qudits
    /\ \A p, n \in DOMAIN d :
          ContractCandidate(d, nq, disjoint, p, n)
             /\ <<p, n>> \notin ContractedPairs(d, d2)
          => \E c \in ContractedPairs(d, d2) :
                /\ {c[1], c[2]} \cap {p, n} # {}
                /\ Cardinality(QuditsOfBoth(d, c[1], c[2]))
                      <= Cardinality(QuditsOfBoth(d, p, n))

\* what a step taken inside contract_all does when it returns
ContractStepRight ==
    pc = "contract" /\ pc' # "panic" =>
        /\ ContractFused(dag, dag', num_qudits, disjoint_size)
        /\ pc' # "contract" =>
              \A p, n \in DOMAIN dag' :
                 ~ContractCandidate(dag', num_qudits, disjoint_size, p, n)

\* C23: every step of contract_all(d) that returns replaces pairs of a node
\* and a direct predecessor that differ on at most d qudits and have no other
\* path between them by their Contract, no node being in two pairs and a
\* candidate pair being passed over only for a pair with a union that is not
\* larger; when the loop is left the DAG holds no such pair.
C23_ContractFixpoint == [][ContractStepRight]_vars

\* contract_all(1) has contracted two operators on two qudits together and
\* passed over the pair of the first of them and its predecessor on three
C23_Witness ==
    /\ pc = "contract"
    /\ disjoint_size = 1
    /\ index_counter - 1 \in DOMAIN dag
    /\ dag[index_counter - 1].node.kind = "Contract"
    /\ Len(dag[index_counter - 1].qudits) = 2
    /\ \E m \in DOMAIN dag :
          /\ dag[m].node.kind = "Leaf"
          /\ Len(dag[m].qudits) = 3
          /\ Some(m) \in Range(dag[index_counter - 1].prev)

----------------------------------------------------------------------------
\* Termination of build_tree

\* the states in which build_tree is inside one of its fixpoint loops
LoopStates == MultiplyStates \cup {"contract"}

\* a step that repeats a fixpoint loop: it has removed nodes and made new
\* ones
LoopStepRight ==
    /\ pc \in LoopStates /\ pc' = pc
    /\ Cardinality(DOMAIN dag') < Cardinality(DOMAIN dag)
    /\ index_counter' > index_counter
    /\ disjoint_size' = disjoint_size

\* a step that moves on, a new round beginning only after the last
\* multiply_all_possible of the round before
MoveStepRight ==
    /\ pc' # pc
    /\ pc \in LoopStates /\ pc' # "panic"
          => Cardinality(DOMAIN dag') = Cardinality(DOMAIN dag)
    /\ disjoint_size' = IF pc' = "kron" THEN disjoint_size + 1 ELSE disjoint_size

\* the searches give an answer, a value or a panic, for every node and every
\* pair of nodes of the DAG
SearchesAnswer ==
    \A a \in DOMAIN dag :
       /\ project_to_right(dag, num_qudits, a).ok \in BOOLEAN
       /\ \A b \in DOMAIN dag :
             has_non_direct_dependency(dag, num_qudits, a, b).ok \in BOOLEAN

\* the rounds of the outer loop are over exactly when num_qudits of them ran
RoundsCounted ==
    /\ disjoint_size <= num_qudits
    /\ pc \in {"join", "assert", "done"} => disjoint_size = num_qudits

\* C24: build_tree ends, by returning or by a panic, on every circuit: a
\* fixpoint loop is repeated only after a step that made the DAG smaller,
\* the outer loop is left after exactly num_qudits rounds, and the searches
\* has_non_direct_dependency and project_to_right end on every DAG of the
\* build, with or without a cycle.
C24_BuildTerminates ==
    /\ <>(pc \in {"done", "panic"})
    /\ [][LoopStepRight \/ MoveStepRight]_vars
    /\ [](RoundsCounted /\ SearchesAnswer)

\* build_tree has gone through a DAG with a cycle on which the searches ran
C24_Witness ==
    /\ pc = "contract"
    /\ ~Acyclic(dag)
    /\ Closed(dag)
    /\ \A a, b \in DOMAIN dag :
          has_non_direct_dependency(dag, num_qudits, a, b).ok

----------------------------------------------------------------------------
\* Properties of TreeOptimizer::optimize

RECURSIVE ConstantsRight(_, _)
\* whether every subtree of t without parameters lies below exactly one
\* Constant node, t itself lying below one when inside holds
ConstantsRight(t, inside) ==
    CASE t.kind = "Constant" ->
            /\ ~inside
            /\ num_params(t.child) = 0
            /\ ConstantsRight(t.child, TRUE)
      [] t.kind = "Leaf" -> inside \/ num_params(t) > 0
      [] t.kind = "Perm" ->
            /\ inside \/ num_params(t) > 0
            /\ ConstantsRight(t.child, inside)
      [] OTHER ->
            /\ inside \/ num_params(t) > 0
            /\ ConstantsRight(t.left, inside)
            /\ ConstantsRight(t.right, inside)

\* C25: after optimize every subtree without parameters lies below exactly
\* one Constant node, the child of a Constant node has no parameters and no
\* Constant node in it, also when the tree given to optimize held Constant
\* nodes, and the generator compiles the tree (one without Perm nodes)
\* without failing its assertion on the code of a Constant child.
C25_ConstantsWrappedOnce ==
    optimized /\ vm_pc = "tree" =>
        /\ ConstantsRight(input_tree, FALSE)
        /\ "Perm" \notin Kinds(input_tree) => generate(input_tree).ok

RECURSIVE NoLeafPair(_)
\* whether no Kron or Mul node of t, at any depth, has two Leaf children
NoLeafPair(t) ==
    CASE t.kind = "Leaf" -> TRUE
      [] t.kind \in {"Perm", "Constant"} -> NoLeafPair(t.child)
      [] OTHER ->
            /\ t.kind \in {"Kron", "Mul"}
                  => ~(t.left.kind = "Leaf" /\ t.right.kind = "Leaf")
            /\ NoLeafPair(t.left)
            /\ NoLeafPair(t.right)

\* whether the pass keeps the root of t when it is a Kron or a Mul with a
\* child that is not a Leaf once fused
RootKept(t) ==
    /\ t.kind \in {"Kron", "Mul"}
    /\ ~(fuse_common_operations(t.left).kind = "Leaf"
          /\ fuse_common_operations(t.right).kind = "Leaf")
    => /\ fuse_common_operations(t).kind = t.kind
       /\ fuse_common_operations(t).left = fuse_common_operations(t.left)
       /\ fuse_common_operations(t).right = fuse_common_operations(t.right)

\* C26: the leaf fusion pass leaves no Kron or Mul node with two Leaf
\* children anywhere in the tree, below Constant nodes included, and keeps a
\* Kron or Mul whose fused children are not both leaves.
C26_LeavesFused ==
    vm_pc = "tree" /\ ~optimized =>
        /\ NoLeafPair(fuse_common_operations(input_tree))
        /\ RootKept(input_tree)

RECURSIVE StripConstants(_)
\* t without its Constant nodes
StripConstants(t) ==
    CASE t.kind = "Leaf" -> t
      [] t.kind = "Constant" -> StripConstants(t.child)
      [] t.kind = "Perm" -> [t EXCEPT !.child = StripConstants(t.child)]
      [] OTHER -> [t EXCEPT !.left = StripConstants(t.left),
                            !.right = StripConstants(t.right)]

\* whether child c2 of a Contract node is child c of the node before the
\* pass with its output permutation composed with perm and its output
\* shape set to shape, when c is a Contract, and has the fields of c when
\* it is not
ChildFused(c, c2, perm, shape) ==
    IF c.kind = "Contract"
    THEN /\ c2.kind = "Contract"
         /\ Len(c2.pre_out_perm) = Len(perm)
         /\ \A k \in 1..Len(perm) :
               c2.pre_out_perm[k] = c.pre_out_perm[perm[k] + 1]
         /\ c2.out_matrix_shape = shape
    ELSE c2.kind = c.kind

RECURSIVE PermFused(_, _, _)
\* whether tree t2 is tree t after the pass; fused tells that the parent of
\* t has fused its permutation into t
PermFused(t, t2, fused_by_parent) ==
    CASE t.kind = "Leaf" -> t2 = t
      [] t.kind = "Perm" ->
            t2.kind = "Perm" /\ PermFused(t.child, t2.child, FALSE)
      [] t.kind = "Contract" ->
            /\ t2.kind = "Contract"
            /\ t2.skip_left = (t.left.kind = "Contract")
            /\ t2.skip_right = (t.right.kind = "Contract")
            /\ t2.left_perm = t.left_perm
            /\ t2.right_perm = t.right_perm
            /\ ~fused_by_parent =>
                  /\ t2.pre_out_perm = t.pre_out_perm
                  /\ t2.out_matrix_shape = t.out_matrix_shape
            /\ ChildFused(t.left, t2.left, t.left_perm,
                          t.left_contraction_shape)
            /\ ChildFused(t.right, t2.right, t.right_perm,
                          t.right_contraction_shape)
            /\ PermFused(t.left, t2.left, t.left.kind = "Contract")
            /\ PermFused(t.right, t2.right, t.right.kind = "Contract")
      [] OTHER ->
            /\ t2.kind = t.kind
            /\ PermFused(t.left, t2.left, FALSE)
            /\ PermFused(t.right, t2.right, FALSE)

RECURSIVE PermutationsLeft(_)
\* the permutations the Contract nodes of t are left with: the one of the
\* output and one for each child that is not a Contract
PermutationsLeft(t) ==
    CASE t.kind = "Leaf" -> 0
      [] t.kind = "Perm" -> PermutationsLeft(t.child)
      [] OTHER ->
            PermutationsLeft(t.left) + PermutationsLeft(t.right)
            + IF t.kind = "Contract"
              THEN 1 + (IF t.left.kind = "Contract" THEN 0 ELSE 1)
                     + (IF t.right.kind = "Contract" THEN 0 ELSE 1)
              ELSE 0

\* the number of FRPR instructions of bytecode code
FRPRs(code) ==
    Len(SelectSeq(code.static_code \o code.dynamic_code,
                  LAMBDA inst : inst.op = "FRPR"))

\* what a call of optimize does to the Contract nodes of the tree
OptimizeStepRight ==
    vm_pc = "tree" /\ ~optimized /\ optimized' =>
        /\ PermFused(StripConstants(fuse_common_operations(input_tree)),
                     StripConstants(input_tree'), FALSE)
        /\ generate(input_tree').ok =>
              FRPRs(generate(input_tree'))
                 = PermutationsLeft(StripConstants(input_tree'))

\* C27: optimize sets skip_left (skip_right) of a Contract node exactly when
\* its left (right) child is a Contract, gives that child the output
\* permutation k -> pre_out_perm[perm[k]] with perm the left_perm
\* (right_perm) of the parent and the parent's left (right) contraction
\* shape as output shape, once, and leaves the other nodes as they were;
\* the generator then emits, for each Contract node, the FRPR of its output
\* and one FRPR for each child that is not a Contract.
C27_PermutationsFused == [][OptimizeStepRight]_vars

\* optimize has fused the left permutation of a Contract node into its left
\* child, and the permutation moved something
C27_Witness ==
    /\ optimized
    /\ vm_pc = "tree"
    /\ StripConstants(input_tree).kind = "Contract"
    /\ StripConstants(input_tree).left.kind = "Contract"
    /\ StripConstants(input_tree).skip_left
    /\ \E k \in 1..Len(StripConstants(input_tree).left_perm) :
          StripConstants(input_tree).left_perm[k] # k - 1

----------------------------------------------------------------------------
\* Properties of ContractNode::new

\* whether p lists each of 0 .. n-1 once
IsPermutationOf(p, n) ==
    /\ Len(p) = n
    /\ \A v \in 0..(n - 1) : \E k \in 1..n : p[k] = v
    /\ \A j, k \in 1..n : j # k => p[j] # p[k]

\* the circuit qudit of the k-th contracted leg of the left side of node n
\* made with the labels lq: the legs lead left_perm
LeftContracted(n, lq, k) == lq[n.left_perm[k] + 1]

\* the circuit qudit of the k-th contracted leg of the right side of node n
\* made with the labels rq, c of them shared: the legs end right_perm
RightContracted(n, rq, c, k) ==
    rq[n.right_perm[2 * Len(rq) - c + k] - Len(rq) + 1]

\* whether the node n made of the labels lq and rq pairs the legs of a
\* shared qudit with each other
LegsPaired(n, lq, rq) ==
    /\ IsPermutationOf(n.left_perm, 2 * Len(lq))
    /\ IsPermutationOf(n.right_perm, 2 * Len(rq))
    /\ IsPermutationOf(n.pre_out_perm,
                       2 * Cardinality(Range(lq) \cup Range(rq)))
    /\ \A k \in 1..Cardinality(Range(lq) \cap Range(rq)) :
          LeftContracted(n, lq, k)
             = RightContracted(n, rq, Cardinality(Range(lq) \cap Range(rq)), k)

\* C28: the node ContractNode::new returns for label lists without repeated
\* labels that share a label has permutations left_perm, right_perm and
\* pre_out_perm of the tensor legs of the left side, the right side and the
\* output, and its k-th contracted leg on the left and its k-th contracted
\* leg on the right are legs of the same circuit qudit, in whatever order
\* the lists name their labels.
C28_LegsPaired ==
    /\ vm_pc = "tree"
    /\ ~optimized
    /\ last_call # None
    /\ last_call.name = "Contract"
    /\ last_call.ok
    => LegsPaired(input_tree, last_call.args[3], last_call.args[4])

-----------------------------------------------------------------------------
\* The layout Bytecode::specialize gives the buffers of a program, and the
\* matrices the views of SizedMatrixBuffer (src/src/bytecode/buffer.rs)
\* address in it.  The strides are results of qudit_core, which src/ does
\* not hold: here calc_mat_stride may return col_stride * ncols or more.

\* Bounds of the programs laid out.
MaxBuffers == 2
MaxLayoutParams == 2
MaxPadding == 2

\* the rows and the columns of a buffer
Sides == {2, 4}

\* the buffers of a program
LayoutBuffers ==
    [nrows : Sides, ncols : Sides, num_params : 0..MaxLayoutParams]

\* what calc_mat_stride may return for a matrix of ncols columns
MatStrides(ncols, col_stride) ==
    {col_stride * ncols + Alignment * k : k \in 0..MaxPadding}

LayoutInit ==
    /\ bytecode \in {[matrix_buffers |-> bufs] :
                       bufs \in UNION {[1..n -> LayoutBuffers] :
                                          n \in 1..MaxBuffers}}
    /\ vm \in {[buffers |-> << >>, memory_size |-> 0, diff_lvl |-> lvl] :
                  lvl \in DifferentiationLevels}
    /\ vm_pc = "specialize"
    /\ input_tree = None
    /\ optimized = FALSE
    /\ calls = 0
    /\ last_call = None
    /\ num_qudits = 0
    /\ qudits_list = << >>
    /\ new_args = None
    /\ dag = << >>
    /\ index_counter = 0
    /\ pc = "done"
    /\ disjoint_size = 0
    /\ fused = 0
    /\ result = None

\* one turn of the loop of Bytecode::specialize
SpecializeBuffer ==
    /\ vm_pc = "specialize"
    /\ Len(vm.buffers) < Len(bytecode.matrix_buffers)
    /\ \E mat_stride \in
            MatStrides(bytecode.matrix_buffers[Len(vm.buffers) + 1].ncols,
                calc_col_stride(
                    bytecode.matrix_buffers[Len(vm.buffers) + 1].nrows,
                    bytecode.matrix_buffers[Len(vm.buffers) + 1].ncols)) :
          vm' = [vm EXCEPT
                   !.buffers =
                       Append(@,
                          [SizedMatrixBuffer(vm.memory_size,
                              bytecode.matrix_buffers[Len(vm.buffers) + 1])
                           EXCEPT !.mat_stride = mat_stride]),
                   !.memory_size =
                       specialize_step(
                          [sized_buffers |-> vm.buffers,
                           offset |-> vm.memory_size],
                          [SizedMatrixBuffer(vm.memory_size,
                              bytecode.matrix_buffers[Len(vm.buffers) + 1])
                           EXCEPT !.mat_stride = mat_stride],
                          vm.diff_lvl).offset]
    /\ UNCHANGED <<builder_vars, input_tree, optimized, bytecode, vm_pc,
                   calls, last_call>>

\* Bytecode::specialize returns after the last buffer
SpecializeReturns ==
    /\ vm_pc = "specialize"
    /\ Len(vm.buffers) = Len(bytecode.matrix_buffers)
    /\ vm_pc' = "specialized"
    /\ UNCHANGED <<builder_vars, input_tree, optimized, bytecode, vm,
                   calls, last_call>>

NextLayout ==
    \/ SpecializeBuffer
    \/ SpecializeReturns

SpecLayout == LayoutInit /\ [][NextLayout]_vars

\* SizedMatrixBuffer::as_matmut, as_matref: where the unitary starts
as_matmut(b) == b.offset

\* SizedMatrixBuffer::as_matvecmut, as_matvecref: where gradient matrix i
\* starts
as_matvecmut(b, i) == b.offset + b.col_stride * b.ncols + i * b.mat_stride

\* SizedMatrixBuffer::as_symsqmatmut, as_symsqmatref: where Hessian matrix k
\* of the packed upper triangle starts
as_symsqmatmut(b, k) ==
    b.offset + b.col_stride * b.ncols
             + (b.col_stride * b.ncols) * b.num_params + k * b.mat_stride

\* the elements of the matrix that starts at ptr, col_stride * ncols of them
Region(b, ptr) == ptr..(ptr + b.col_stride * b.ncols - 1)

\* where the matrices of b start at the level diff_lvl
Starts(b, diff_lvl) ==
    {as_matmut(b)}
    \cup (IF gradient_capable(diff_lvl)
          THEN {as_matvecmut(b, i) : i \in 0..(b.num_params - 1)}
          ELSE {})
    \cup (IF hessian_capable(diff_lvl)
          THEN {as_symsqmatmut(b, k) :
                   k \in 0..((b.num_params * (b.num_params + 1)) \div 2 - 1)}
          ELSE {})

\* how many matrices b has at the level diff_lvl
Matrices(b, diff_lvl) ==
    1 + (IF gradient_capable(diff_lvl) THEN b.num_params ELSE 0)
      + (IF hessian_capable(diff_lvl)
         THEN (b.num_params * (b.num_params + 1)) \div 2 ELSE 0)

\* where the memory reserved for buffer j of the machine ends
Reserved(j) ==
    IF j < Len(vm.buffers) THEN vm.buffers[j + 1].offset ELSE vm.memory_size

\* C29: the matrices the views of a buffer specialize has laid out address
\* (the unitary, the gradient matrices at the levels Gradient and Hessian,
\* the Hessian matrices at the level Hessian) are as many regions as the
\* buffer has matrices, no two of them share an element, and all of them
\* lie between the offset of the buffer and the end of the memory reserved
\* for it, whatever mat_stride >= col_stride * ncols and num_params it has.
C29_SlabsDisjoint ==
    vm_pc \in {"specialize", "specialized"} =>
        \A j \in 1..Len(vm.buffers) :
            /\ vm.buffers[j].mat_stride
                  >= vm.buffers[j].col_stride * vm.buffers[j].ncols
            /\ Cardinality(Starts(vm.buffers[j], vm.diff_lvl))
                  = Matrices(vm.buffers[j], vm.diff_lvl)
            /\ \A p, q \in Starts(vm.buffers[j], vm.diff_lvl) :
                  p # q => Region(vm.buffers[j], p)
                              \cap Region(vm.buffers[j], q) = {}
            /\ \A p \in Starts(vm.buffers[j], vm.diff_lvl) :
                  /\ p >= vm.buffers[j].offset
                  /\ p + vm.buffers[j].col_stride * vm.buffers[j].ncols
                        <= Reserved(j)

-----------------------------------------------------------------------------
\* A caller inside the crate that builds a tree out of leaves, Constant
\* nodes and subtrees of the tree it has, and hands it to
\* BytecodeGenerator::generate.

\* Bound of the constructor calls.
MaxMemoNodes == 3

\* the expressions of the leaves: a qubit gate without parameters and a
\* qubit gate of one parameter
MemoGates == {Expression(<<"P">>, 1, 0), Expression(<<"U">>, 1, 1)}

RECURSIVE Subtrees(_)
\* the subtrees of t, t among them
Subtrees(t) ==
    CASE t.kind = "Leaf" -> {t}
      [] t.kind \in {"Perm", "Constant"} -> {t} \cup Subtrees(t.child)
      [] OTHER -> {t} \cup Subtrees(t.left) \cup Subtrees(t.right)

\* the trees a node is made of together with t
MemoPartners(t) ==
    {Leaf(g) : g \in MemoGates}
    \cup {ConstantNodeNew(Leaf(g)) : g \in MemoGates}
    \cup Subtrees(t)

MemoInit ==
    /\ input_tree \in {Leaf(g) : g \in MemoGates}
    /\ optimized = FALSE
    /\ bytecode = None
    /\ vm = None
    /\ vm_pc = "tree"
    /\ calls = 0
    /\ last_call = None
    /\ num_qudits = 0
    /\ qudits_list = << >>
    /\ new_args = None
    /\ dag = << >>
    /\ index_counter = 0
    /\ pc = "done"
    /\ disjoint_size = 0
    /\ fused = 0
    /\ result = None

\* a constructor call that returned r
MemoMade(name, args, r) ==
    /\ vm_pc = "tree"
    /\ calls < MaxMemoNodes
    /\ last_call' = [name |-> name, args |-> args, ok |-> r.ok]
    /\ input_tree' = IF r.ok THEN r.val ELSE input_tree
    /\ vm_pc' = IF r.ok THEN "tree" ELSE "panicked"
    /\ calls' = calls + 1
    /\ UNCHANGED <<optimized, bytecode, vm>>
    /\ UNCHANGED builder_vars

\* KronNode::new(left, right) of the tree and a partner
MemoKron ==
    \E s \in MemoPartners(input_tree) :
        \E c \in {<<input_tree, s>>, <<s, input_tree>>} :
            MemoMade("Kron", c,
                     [ok |-> TRUE, val |-> KronNodeNew(c[1], c[2])])

\* MulNode::new(left, right) of the tree and a partner
MemoMul ==
    \E s \in MemoPartners(input_tree) :
        \E c \in {<<input_tree, s>>, <<s, input_tree>>} :
            MemoMade("Mul", c, MulNodeNew(c[1], c[2]))

\* ConstantNode::new(child) of the tree
MemoConstant ==
    MemoMade("Constant", <<input_tree>>,
             [ok |-> TRUE, val |-> ConstantNodeNew(input_tree)])

\* BytecodeGenerator::new().generate(&tree)
Generate ==
    /\ vm_pc = "tree"
    /\ bytecode' = generate(input_tree)
    /\ vm_pc' = IF bytecode'.ok THEN "generated" ELSE "aborted"
    /\ UNCHANGED <<input_tree, optimized, vm, calls, last_call>>
    /\ UNCHANGED builder_vars

NextMemo ==
    \/ MemoKron
    \/ MemoMul
    \/ MemoConstant
    \/ Generate

SpecMemo == MemoInit /\ [][NextMemo]_vars

-----------------------------------------------------------------------------
\* Properties of the Constant arm of BytecodeGenerator::parse

RECURSIVE ConstantsOf(_)
\* the Constant subtrees of t that are not below another Constant node
ConstantsOf(t) ==
    CASE t.kind = "Leaf" -> {}
      [] t.kind = "Constant" -> {t}
      [] t.kind = "Perm" -> ConstantsOf(t.child)
      [] OTHER -> ConstantsOf(t.left) \cup ConstantsOf(t.right)

RECURSIVE Occurrences(_, _)
\* how often the Constant subtree c occurs in t
Occurrences(t, c) ==
    CASE t = c -> 1
      [] t.kind = "Leaf" -> 0
      [] t.kind \in {"Perm", "Constant"} -> 0
      [] OTHER -> Occurrences(t.left, c) + Occurrences(t.right, c)

RECURSIVE DynamicCount(_)
\* the instructions of a tree of Leaf, Kron and Mul nodes, one for each,
\* its Constant subtrees left out
DynamicCount(t) ==
    CASE t.kind = "Leaf" -> 1
      [] t.kind = "Constant" -> 0
      [] OTHER -> 1 + DynamicCount(t.left) + DynamicCount(t.right)

RECURSIVE StaticCount(_)
\* the instructions of the children of the Constant trees in S, each tree
\* counted once
StaticCount(S) ==
    IF S = {} THEN 0
    ELSE LET c == CHOOSE x \in S : TRUE
         IN  DynamicCount(c.child) + StaticCount(S \ {c})

\* the buffers an instruction reads
Operands(inst) ==
    CASE inst.op = "Write" -> {}
      [] inst.op = "FRPR" -> {inst.input}
      [] OTHER -> {inst.left, inst.right}

RECURSIVE Skeleton(_)
\* the leaves of t and the products made of them, its Constant nodes left
\* out
Skeleton(t) ==
    CASE t.kind = "Leaf" -> <<"Leaf", t.expr>>
      [] t.kind = "Constant" -> Skeleton(t.child)
      [] OTHER -> <<t.kind, Skeleton(t.left), Skeleton(t.right)>>

RECURSIVE Computes(_, _)
\* what buffer b holds after the instructions insts, every buffer being
\* written by one of them from buffers of smaller ids: Matmul(a, b, c)
\* multiplies in the order b, a
Computes(insts, b) ==
    LET inst == insts[CHOOSE i \in 1..Len(insts) : insts[i].out = b]
    IN  CASE inst.op = "Write" -> <<"Leaf", inst.expr>>
          [] inst.op = "Kron" ->
                <<"Kron", Computes(insts, inst.left),
                          Computes(insts, inst.right)>>
          [] inst.op = "Matmul" ->
                <<"Mul", Computes(insts, inst.right),
                         Computes(insts, inst.left)>>

RECURSIVE UsedBy(_, _)
\* the buffers the value of buffer b is computed from, b among them
UsedBy(insts, b) ==
    LET inst == insts[CHOOSE i \in 1..Len(insts) : insts[i].out = b]
    IN  {b} \cup UNION {UsedBy(insts, o) : o \in Operands(inst)}

RECURSIVE SkeletonCount(_)
\* the instructions that compute a skeleton
SkeletonCount(s) ==
    IF s[1] = "Leaf" THEN 1
    ELSE 1 + SkeletonCount(s[2]) + SkeletonCount(s[3])

RECURSIVE ParamsOf(_)
\* the parameters of the expressions of the Write instructions ws
ParamsOf(ws) == IF ws = << >> THEN 0 ELSE Head(ws).expr.np + ParamsOf(Tail(ws))

\* the Write instructions of code
Writes(code) == SelectSeq(code, LAMBDA inst : inst.op = "Write")

\* whether every buffer of code is written by one instruction, from buffers
\* of smaller ids
WrittenOnce(code) ==
    /\ \A b \in 0..(Len(code.matrix_buffers) - 1) :
          Cardinality({i \in 1..Len(code.static_code \o code.dynamic_code) :
                         (code.static_code \o code.dynamic_code)[i].out = b})
             = 1
    /\ \A i \in 1..Len(code.static_code \o code.dynamic_code) :
          /\ (code.static_code \o code.dynamic_code)[i].out
                \in 0..(Len(code.matrix_buffers) - 1)
          /\ \A o \in Operands((code.static_code \o code.dynamic_code)[i]) :
                o < (code.static_code \o code.dynamic_code)[i].out

\* the buffers the static code writes
StaticBuffers(code) == {code.static_code[i].out : i \in 1..Len(code.static_code)}

\* the buffers of the static code that hold the value of a Constant
\* subtree: the ones the dynamic code reads, or the last one when the tree
\* is a Constant itself
ConstantOuts(t, code) ==
    IF t.kind = "Constant"
    THEN {code.static_code[Len(code.static_code)].out}
    ELSE StaticBuffers(code)
         \cap UNION {Operands(code.dynamic_code[i]) :
                        i \in 1..Len(code.dynamic_code)}

\* whether code is the bytecode of t with every Constant subtree compiled
\* once into the static code
Memoized(t, code) ==
    /\ WrittenOnce(code)
    /\ Len(code.static_code) = StaticCount(ConstantsOf(t))
    /\ Len(code.dynamic_code) = DynamicCount(t)
    /\ \A i \in 1..Len(code.static_code) :
          Operands(code.static_code[i]) \subseteq StaticBuffers(code)
    /\ Computes(code.static_code \o code.dynamic_code,
                (code.static_code \o code.dynamic_code)
                    [Len(code.static_code \o code.dynamic_code)].out)
          = Skeleton(t)
    /\ {Computes(code.static_code, b) : b \in ConstantOuts(t, code)}
          = {Skeleton(c) : c \in ConstantsOf(t)}
    /\ Cardinality(ConstantOuts(t, code)) = Cardinality(ConstantsOf(t))
    /\ \A b \in ConstantOuts(t, code) :
          \E i \in 1..Len(code.static_code) :
             /\ code.static_code[i].out = b
             /\ UsedBy(code.static_code, b)
                   = {code.static_code[j].out :
                        j \in (i - SkeletonCount(Computes(code.static_code, b))
                                 + 1)..i}
    /\ \A k \in 1..Len(Writes(code.dynamic_code)) :
          Writes(code.dynamic_code)[k].idx
             = ParamsOf(SubSeq(Writes(code.dynamic_code), 1, k - 1))

\* C30: the bytecode generate returns for a tree of Leaf, Kron, Mul and
\* Constant nodes holds the instructions of every Constant subtree once, in
\* the static code and on buffers of the one buffer list, however often the
\* subtree occurs; every occurrence is read from the one buffer the last
\* instruction of the subtree writes; the dynamic code holds the
\* instructions of the rest of the tree only, and its Write instructions
\* take their parameters one after the other as if the Constant subtrees
\* were not there.
C30_ConstantsMemoized ==
    vm_pc = "generated" => Memoized(input_tree, bytecode)

\* generate has returned the bytecode of a tree with two different Constant
\* subtrees, one of which occurs twice
C30_Witness ==
    /\ vm_pc = "generated"
    /\ Cardinality(ConstantsOf(input_tree)) >= 2
    /\ \E c \in ConstantsOf(input_tree) : Occurrences(input_tree, c) >= 2

====
